---- MODULE Spec2Model ----
(***************************************************************************)
(* HackerNews API test framework: the transport client                     *)
(* (HttpClient.request: retry loop, per-attempt timeout, body decoding,    *)
(* typed errors) and the domain client built on it (HackerNewsClient).     *)
(*                                                                         *)
(* The remote service and the network are the environment: they choose    *)
(* the status, the content type and the body of every response, or fail,   *)
(* or stay silent.                                                         *)
(*                                                                         *)
(* Six specifications share the state:                                     *)
(*   Spec        one logical call in progress at a time, every operation;  *)
(*   ConfigSpec  the ConfigManager singleton from process start;           *)
(*   ConcSpec    getItem calls started together and awaited jointly;       *)
(*   SeqSpec     one call issued twice against a remote that answers the   *)
(*               second as it answered the first;                          *)
(*   StorySpec   getTopStoryWithComment and the calls it makes in turn;    *)
(*   PureSpec    buildUrl, validateRequired, validateType and the schema   *)
(*               validators applied to arguments from bounded sets.        *)
(***************************************************************************)
EXTENDS Integers, Sequences, FiniteSets, TLC

(***************************************************************************)
(* Bounds of the model.                                                    *)
(***************************************************************************)
MaxRetryOverride == 2   \* largest per-request retry override tried
MaxItemId == 2          \* item ids requested: -1 .. MaxItemId
MaxListLen == 2         \* longest id list the remote serves
MaxLimit == 2           \* limits requested: -1 .. MaxLimit
NumCalls == 2           \* getItem calls started together and awaited jointly
MaxFields == 2          \* longest list of required paths checked
MaxEdits == 1           \* fields changed, added or dropped in a well-formed record
MaxSlashes == 2         \* most '/' at the end of a base URL or the start of a path

(***************************************************************************)
(* Decoded JSON values and JavaScript values.                              *)
(***************************************************************************)
Undefined == [t |-> "undefined"]
Null == [t |-> "null"]
Num(n) == [t |-> "number", n |-> n]
Str(raw) == [t |-> "string", s |-> raw]
Arr(a) == [t |-> "array", a |-> a]
Obj(fields) == [t |-> "object", f |-> fields]
Bool(b) == [t |-> "boolean", b |-> b]
StrLit(s) == Str([k |-> "lit", v |-> s])     \* a string known by its content

(***************************************************************************)
(* Strings that are taken apart (URLs, paths) are sequences of tokens;     *)
(* "/" and the two scheme prefixes are tokens of their own.                *)
(***************************************************************************)
StartsWith(s, tok) == Len(s) > 0 /\ s[1] = tok
EndsWith(s, tok) == Len(s) > 0 /\ s[Len(s)] = tok

\* HttpClient.buildUrl
buildUrl(baseUrl, path) ==
    IF StartsWith(path, "http://") \/ StartsWith(path, "https://")
    THEN path
    ELSE LET base == IF EndsWith(baseUrl, "/")
                     THEN SubSeq(baseUrl, 1, Len(baseUrl) - 1)
                     ELSE baseUrl
             endpoint == IF StartsWith(path, "/") THEN path ELSE <<"/">> \o path
         IN  base \o endpoint

(***************************************************************************)
(* Configuration profiles (ConfigManager.loadEnvironments) and the values  *)
(* a client captures from the active one at construction.                  *)
(***************************************************************************)
HNBaseUrl == <<"https://", "hacker-news.firebaseio.com", "/", "v0">>
DefaultTimeout == 30000
DevRetries == 2
StagingRetries == 2
ProductionRetries == 1

environments ==
    [dev        |-> [name |-> "dev", baseUrl |-> HNBaseUrl,
                     timeout |-> DefaultTimeout, retries |-> DevRetries],
     staging    |-> [name |-> "staging", baseUrl |-> HNBaseUrl,
                     timeout |-> DefaultTimeout, retries |-> StagingRetries],
     production |-> [name |-> "production", baseUrl |-> HNBaseUrl,
                     timeout |-> DefaultTimeout, retries |-> ProductionRetries]]

EnvNames == DOMAIN environments

\* ConfigManager.getTimeout / getRetries: `x || default`
getTimeout(env) == IF env.timeout = 0 THEN DefaultTimeout ELSE env.timeout
getRetries(env) == IF env.retries = 0 THEN 0 ELSE env.retries

\* new HackerNewsClient() -> BaseAPI constructor -> new HttpClient(baseUrl, headers)
NewClient(env) ==
    [baseUrl |-> HNBaseUrl,
     defaultHeaders |-> "application/json",
     timeout |-> getTimeout(env),
     retries |-> getRetries(env)]

(***************************************************************************)
(* Errors.                                                                 *)
(***************************************************************************)
APIError(statusCode, endpoint, responseBody) ==
    [name |-> "APIError", statusCode |-> statusCode,
     endpoint |-> endpoint, responseBody |-> responseBody]
ValidationError(field, details) ==
    [name |-> "ValidationError", field |-> field, validationDetails |-> details]
TypeError == [name |-> "TypeError"]        \* fetch: network failure
AbortError == [name |-> "AbortError"]      \* fetch: aborted by the signal
SyntaxError == [name |-> "SyntaxError"]    \* response.json(): malformed body

SyntheticStatus == 500

\* as handleAPIError, but an error that is not an APIError is thrown on as it is
handleAPIError_Rethrow(error, endpoint) ==
    IF error.name = "APIError"
    THEN error
    ELSE IF "response" \in DOMAIN error
         THEN APIError(error.response.status, endpoint, error.response.data)
         ELSE error

\* ErrorHandler.handleAPIError: the value it throws
handleAPIError(error, endpoint) ==
    IF error.name = "APIError"
    THEN error
    ELSE IF "response" \in DOMAIN error
         THEN APIError(error.response.status, endpoint, error.response.data)
         ELSE APIError(SyntheticStatus, endpoint, Undefined)

(***************************************************************************)
(* Retry budget of one call: `config.retries ?? this.retries`.  An         *)
(* override is absent, an integer or NaN.                                  *)
(***************************************************************************)
AbsentR == [k |-> "absent"]
IntR(n) == [k |-> "int", n |-> n]
NaNR == [k |-> "nan"]
RetryOverrides == {AbsentR, NaNR} \cup {IntR(n) : n \in -1..MaxRetryOverride}

TimeoutInputs == {0, 5000}      \* 0: no override (falsy)

\* as IsFinalAttempt, one attempt early: `attempt === maxRetries - 1`
IsFinalAttempt_Early(a, mr) == mr.k = "int" /\ a = mr.n - 1

\* `attempt <= maxRetries` and `attempt === maxRetries` of the retry loop
LoopCond(a, mr) == mr.k = "int" /\ a <= mr.n
IsFinalAttempt(a, mr) == mr.k = "int" /\ a = mr.n

BackoffUnit == 1000

\* as BackoffDelay, with the same delay before every retry
BackoffDelay_Constant(a) == BackoffUnit

\* `1000 * attempt`, the argument of this.delay at line 96
BackoffDelay(a) == BackoffUnit * a

(***************************************************************************)
(* The remote.  A raw body is JSON text of a value, text that is not JSON, *)
(* a body that never completes, or a body cut by a network failure.        *)
(***************************************************************************)
JsonBody(v) == [k |-> "json", v |-> v]
TextBody == [k |-> "text"]
StallBody == [k |-> "stall"]
ResetBody == [k |-> "reset"]

ContentTypes == {"none", "application/json; charset=utf-8", "text/html"}
\* as IsJsonContentType, but any content-type header at all counts as JSON
IsJsonContentType_AnyHeader(ct) == ct # "none"

\* contentType?.includes('application/json')
IsJsonContentType(ct) == ct = "application/json; charset=utf-8"

OkStatuses == {200, 201}
ErrStatuses == {404, 500}
\* Response.ok of the fetch API
ResponseOk(status) == status >= 200 /\ status <= 299

RECURSIVE SeqsUpTo(_, _)
SeqsUpTo(S, n) ==
    IF n = 0 THEN {<<>>}
    ELSE LET shorter == SeqsUpTo(S, n - 1)
         IN  shorter \cup {Append(s, x) : s \in shorter, x \in S}

ServerLists == SeqsUpTo(1..2, MaxListLen)

ItemIdValues == {Undefined, Null, Num(-1), Num(1), Num(MaxItemId)}
ItemRecords == {Obj([id |-> i]) : i \in ItemIdValues}
PresentOrNot == {Undefined, Null, Num(1)}
UserRecords == {Obj([id |-> i, created |-> c, karma |-> kk]) :
                    i \in {Undefined, StrLit("pg")}, c \in PresentOrNot, kk \in PresentOrNot}

ListOps == {"getTopStories", "getNewStories", "getBestStories",
            "getAskStories", "getShowStories", "getJobStories"}
NotEmptyOps == {"getTopStories", "getNewStories", "getBestStories"}

\* values the remote can serve on the endpoint family of an operation
ServedValues(op) ==
    CASE op = "getItem" -> {Null} \cup ItemRecords
      [] op = "getUser" -> {Null} \cup UserRecords
      [] op \in ListOps -> {Null} \cup {Arr(l) : l \in ServerLists}
      [] op = "getMaxItemId" -> {Null, Num(MaxItemId)}
      [] OTHER -> {Null, Num(1)}

OkBodies(op) == {JsonBody(v) : v \in ServedValues(op)} \cup {TextBody, StallBody, ResetBody}
ErrBodies == {JsonBody(Null), TextBody}

Responses(op) ==
    [status : OkStatuses, ct : ContentTypes, body : OkBodies(op)]
    \cup [status : ErrStatuses, ct : ContentTypes, body : ErrBodies]

NoResponse == [status |-> 0, ct |-> "none", body |-> TextBody]

(***************************************************************************)
(* State.                                                                  *)
(***************************************************************************)
VARIABLES
    testEnv,        \* process.env.TEST_ENV: undefined or a string
    configInstance, \* ConfigManager.instance: undefined, or its config
    cfgCall,        \* the last ConfigManager operation: op, arg, outcome
    slots,          \* concurrent getItem calls: the locals of each one
    results,        \* what the joint await (Promise.all) gave
    script,         \* replayed remote: the answer to the k-th fetch of a call
    seqCall,        \* the call that is issued twice in sequence
    round,          \* how many times it has been issued
    firstOutcome,   \* what the first of the two calls gave
    story,          \* getTopStoryWithComment: its position and locals
    storyOutcome,   \* what getTopStoryWithComment returned or threw
    pureIn,         \* a validator or schema check applied: its arguments
    pureOut,        \* and its result
    client,       \* HttpClient fields: baseUrl, defaultHeaders, timeout, retries
    call,         \* the operation in progress: op, arg, url, timeout, maxRetries
    pc,           \* "idle", "backoff", "fetching", "reading", "settled", "done"
    attempt,      \* loop variable of HttpClient.request
    fetches,      \* number of fetch() calls issued by the current call
    delayMs,      \* backoff delay being awaited (0: none)
    timers,       \* attempts whose timeout timer is still pending
    resp,         \* response of the current attempt (headers received)
    lastError,    \* lastError of HttpClient.request
    reqOutcome,   \* what HttpClient.request returned or threw
    opOutcome     \* what the operation returned or threw to its caller

vars == <<testEnv, configInstance, cfgCall, slots, results, script, seqCall,
          round, firstOutcome, story, storyOutcome, pureIn, pureOut, client, call,
          pc, attempt, fetches, delayMs, timers, resp, lastError, reqOutcome,
          opOutcome>>

\* the state of the ConfigManager module, and the state of a call
cfgVars == <<testEnv, configInstance, cfgCall>>
reqVars == <<call, pc, attempt, fetches, delayMs, timers, resp, lastError,
             reqOutcome, opOutcome>>
concVars == <<slots, results>>
seqVars == <<script, seqCall, round, firstOutcome>>
storyVars == <<story, storyOutcome>>
pureVars == <<pureIn, pureOut>>

None == [k |-> "none"]
Return(v) == [k |-> "return", v |-> v]
Throw(e) == [k |-> "throw", e |-> e]

NoCall == [op |-> "none", arg |-> 0, url |-> <<>>, timeout |-> 0, maxRetries |-> AbsentR]

NoCfgCall == [op |-> "none", arg |-> "", outcome |-> None]

\* no call is in progress
NoCallInProgress ==
    /\ call = NoCall
    /\ pc = "idle"
    /\ attempt = 0
    /\ fetches = 0
    /\ delayMs = 0
    /\ timers = {}
    /\ resp = NoResponse
    /\ lastError = Undefined
    /\ reqOutcome = None
    /\ opOutcome = None

NoSeqCall == [op |-> "none", arg |-> 0, retries |-> AbsentR]
NoStory == [at |-> "idle"]
NoApplication == [fn |-> "none"]

\* nothing is replayed, composed or applied
IdleSeq == script = <<>> /\ seqCall = NoSeqCall /\ round = 0 /\ firstOutcome = None
IdleStory == story = NoStory /\ storyOutcome = None
IdlePure == pureIn = NoApplication /\ pureOut = None

\* the configuration was loaded for a known TEST_ENV and one client was
\* constructed from it
Loaded ==
    /\ \E e \in EnvNames :
          /\ testEnv = StrLit(e)
          /\ configInstance = [config |-> [environment |-> environments[e]]]
          /\ client = NewClient(environments[e])
    /\ cfgCall = NoCfgCall
    /\ NoCallInProgress
    /\ slots = <<>>
    /\ results = None

Init == Loaded /\ IdleSeq /\ IdleStory /\ IdlePure

(***************************************************************************)
(* HttpClient.request.                                                     *)
(***************************************************************************)
\* request has returned or thrown `outcome`; a direct caller receives it as is
Settle(op, outcome) ==
    /\ reqOutcome' = outcome
    /\ IF op = "request"
       THEN pc' = "done" /\ opOutcome' = outcome
       ELSE pc' = "settled" /\ opOutcome' = None

\* as Enter, but the call uses up one retry of the client's default budget:
\* `this.retries` is written back, one lower
Enter_DecrementsRetries(op, arg, cfg) ==
    /\ LET mr == IF cfg.retries = AbsentR THEN IntR(client.retries) ELSE cfg.retries
           to == IF cfg.timeout = 0 THEN client.timeout ELSE cfg.timeout
       IN  /\ call' = [op |-> op, arg |-> arg, url |-> buildUrl(client.baseUrl, cfg.url),
                       timeout |-> to, maxRetries |-> mr]
           /\ resp' = NoResponse
           /\ timers' = IF LoopCond(0, mr) THEN {0} ELSE {}
           /\ fetches' = IF LoopCond(0, mr) THEN 1 ELSE 0
           /\ attempt' = 0
           /\ lastError' = Undefined
           /\ delayMs' = 0
           /\ IF LoopCond(0, mr)
              THEN pc' = "fetching" /\ reqOutcome' = None /\ opOutcome' = None
              ELSE Settle(op, Throw(Undefined))
    /\ client' = [client EXCEPT !.retries = IF @ > 0 THEN @ - 1 ELSE 0]

\* entry of request(config) up to its first suspension point
Enter(op, arg, cfg) ==
    /\ LET mr == IF cfg.retries = AbsentR THEN IntR(client.retries) ELSE cfg.retries
           to == IF cfg.timeout = 0 THEN client.timeout ELSE cfg.timeout
       IN  /\ call' = [op |-> op, arg |-> arg, url |-> buildUrl(client.baseUrl, cfg.url),
                       timeout |-> to, maxRetries |-> mr]
           /\ resp' = NoResponse
           /\ timers' = IF LoopCond(0, mr) THEN {0} ELSE {}
           /\ fetches' = IF LoopCond(0, mr) THEN 1 ELSE 0
           /\ attempt' = 0
           /\ lastError' = Undefined
           /\ delayMs' = 0
           /\ IF LoopCond(0, mr)
              THEN pc' = "fetching" /\ reqOutcome' = None /\ opOutcome' = None
              ELSE Settle(op, Throw(Undefined))
    /\ UNCHANGED client

\* as Catch, but a 4xx response is taken as final and thrown at once
Catch_NoRetryOn4xx(error) ==
    IF IsFinalAttempt(attempt, call.maxRetries)
       \/ ("statusCode" \in DOMAIN error /\ error.statusCode \in 400..499)
    THEN /\ lastError' = error
         /\ Settle(call.op, Throw(handleAPIError(error, call.url)))
         /\ UNCHANGED <<attempt, fetches, delayMs>>
    ELSE IF LoopCond(attempt + 1, call.maxRetries)
         THEN /\ lastError' = error
              /\ attempt' = attempt + 1
              /\ pc' = "backoff"
              /\ delayMs' = BackoffDelay(attempt + 1)
              /\ UNCHANGED <<fetches, reqOutcome, opOutcome>>
         ELSE /\ lastError' = error
              /\ attempt' = attempt + 1
              /\ Settle(call.op, Throw(error))
              /\ UNCHANGED <<fetches, delayMs>>

\* the catch block (lines 145-157) and the step to the next iteration
Catch(error) ==
    IF IsFinalAttempt(attempt, call.maxRetries)
    THEN /\ lastError' = error
         /\ Settle(call.op, Throw(handleAPIError(error, call.url)))
         /\ UNCHANGED <<attempt, fetches, delayMs>>
    ELSE IF LoopCond(attempt + 1, call.maxRetries)
         THEN /\ lastError' = error
              /\ attempt' = attempt + 1
              /\ pc' = "backoff"
              /\ delayMs' = BackoffDelay(attempt + 1)
              /\ UNCHANGED <<fetches, reqOutcome, opOutcome>>
         ELSE /\ lastError' = error
              /\ attempt' = attempt + 1
              /\ Settle(call.op, Throw(error))
              /\ UNCHANGED <<fetches, delayMs>>

\* a new call starts once the caller has taken the previous outcome and the
\* timers of the previous call have run out
CanCall == pc = "idle" /\ timers = {}

\* HttpClient.get on a path given directly by the caller, with overrides
CallRequest ==
    /\ CanCall
    /\ \E r \in RetryOverrides, t \in TimeoutInputs :
        Enter("request", 0, [method |-> "GET", url |-> <<"/", "maxitem.json">>,
                             timeout |-> t, retries |-> r])
    /\ UNCHANGED <<cfgVars, concVars, seqVars, storyVars, pureVars>>

\* HttpClient.delay resolves; the attempt starts: setTimeout, fetch
BackoffElapsed ==
    /\ pc = "backoff"
    /\ pc' = "fetching"
    /\ delayMs' = 0
    /\ timers' = timers \cup {attempt}
    /\ fetches' = fetches + 1
    /\ resp' = NoResponse
    /\ UNCHANGED <<client, call, attempt, lastError, reqOutcome, opOutcome>>
    /\ UNCHANGED <<cfgVars, concVars, seqVars, storyVars, pureVars>>

\* fetch resolves with the response head; clearTimeout
FetchResolves ==
    /\ pc = "fetching"
    /\ attempt \in timers
    /\ \E r \in Responses(call.op) : resp' = r
    /\ timers' = timers \ {attempt}
    /\ pc' = "reading"
    /\ UNCHANGED <<client, call, attempt, fetches, delayMs, lastError, reqOutcome, opOutcome>>
    /\ UNCHANGED <<cfgVars, concVars, seqVars, storyVars, pureVars>>

\* fetch rejects with a network error; the timer is not cleared
FetchRejects ==
    /\ pc = "fetching"
    /\ Catch(TypeError)
    /\ UNCHANGED <<client, call, timers, resp>>
    /\ UNCHANGED <<cfgVars, concVars, seqVars, storyVars, pureVars>>

\* the timeout timer of the attempt in flight fires: controller.abort()
TimeoutFires ==
    /\ pc = "fetching"
    /\ attempt \in timers
    /\ timers' = timers \ {attempt}
    /\ Catch(AbortError)
    /\ UNCHANGED <<client, call, resp>>
    /\ UNCHANGED <<cfgVars, concVars, seqVars, storyVars, pureVars>>

\* as StaleTimerFires, with one AbortController shared by all attempts: the
\* timer of an ended attempt aborts the attempt in flight
StaleTimerFires_SharedController ==
    /\ \E i \in timers :
        /\ ~(pc = "fetching" /\ i = attempt)
        /\ timers' = timers \ {i}
        /\ IF pc = "fetching"
           THEN Catch(AbortError) /\ UNCHANGED <<client, call, resp>>
           ELSE UNCHANGED <<client, call, pc, attempt, fetches, delayMs, resp,
                            lastError, reqOutcome, opOutcome>>
    /\ UNCHANGED <<cfgVars, concVars, seqVars, storyVars, pureVars>>

\* a timer left behind by an ended attempt fires; its abort has no effect
StaleTimerFires ==
    /\ \E i \in timers :
        /\ ~(pc = "fetching" /\ i = attempt)
        /\ timers' = timers \ {i}
    /\ UNCHANGED <<client, call, pc, attempt, fetches, delayMs, resp,
                   lastError, reqOutcome, opOutcome>>
    /\ UNCHANGED <<cfgVars, concVars, seqVars, storyVars, pureVars>>

\* as Decode, but every body is parsed as JSON whatever the content type
Decode_AlwaysJson(r) ==
    IF r.body.k = "reset" THEN Throw(TypeError)
    ELSE IF r.body.k = "json" THEN Return(r.body.v) ELSE Throw(SyntaxError)

\* response.json() / response.text(): the decoded data or the error thrown
Decode(r) ==
    IF r.body.k = "reset" THEN Throw(TypeError)
    ELSE IF IsJsonContentType(r.ct)
         THEN IF r.body.k = "json" THEN Return(r.body.v) ELSE Throw(SyntaxError)
         ELSE Return(Str(r.body))

\* the envelope built at lines 125-131
HttpResponse(r, data) ==
    [status |-> r.status, headers |-> r.ct, data |-> data, ok |-> ResponseOk(r.status)]

\* as AfterDecode, without the `if (!response.ok)` throw
AfterDecode_NoOkCheck(r, data, url) == Return(HttpResponse(r, data))

\* what the rest of the try block does with a decoded response
AfterDecode(r, data, url) ==
    IF ~ResponseOk(r.status)
    THEN Throw(APIError(r.status, url, data))
    ELSE Return(HttpResponse(r, data))

\* the body arrives and is decoded; the attempt ends
ReadBody ==
    /\ pc = "reading"
    /\ resp.body.k # "stall"
    /\ LET d == Decode(resp)
           o == IF d.k = "throw" THEN d ELSE AfterDecode(resp, d.v, call.url)
       IN  IF o.k = "throw"
           THEN Catch(o.e)
           ELSE /\ Settle(call.op, o)
                /\ UNCHANGED <<attempt, fetches, delayMs, lastError>>
    /\ UNCHANGED <<client, call, timers, resp>>
    /\ UNCHANGED <<cfgVars, concVars, seqVars, storyVars, pureVars>>

(***************************************************************************)
(* ResponseValidator.                                                      *)
(***************************************************************************)
\* String.prototype.split on the "." token
RECURSIVE Split(_, _)
Split(s, sep) ==
    IF \A i \in 1..Len(s) : s[i] # sep
    THEN <<s>>
    ELSE LET i == CHOOSE j \in 1..Len(s) :
                      s[j] = sep /\ \A h \in 1..(j - 1) : s[h] # sep
         IN  <<SubSeq(s, 1, i - 1)>> \o Split(SubSeq(s, i + 1, Len(s)), sep)

\* current?.[prop] for a property name given as one token
Prop(current, prop) ==
    CASE current.t = "object" ->
            IF prop \in DOMAIN current.f THEN current.f[prop] ELSE Undefined
      [] current.t = "array" ->
            IF prop = "length" THEN Num(Len(current.a)) ELSE Undefined
      [] OTHER -> Undefined

RECURSIVE Reduce(_, _)
Reduce(current, props) ==
    IF props = <<>> THEN current
    ELSE Reduce(Prop(current, IF Len(Head(props)) = 1 THEN Head(props)[1] ELSE ""),
                Tail(props))

\* ResponseValidator.getNestedValue
getNestedValue(obj, path) == Reduce(obj, Split(path, "."))

\* as MissingOf, with `value === undefined` as the only test
RECURSIVE MissingOf_UndefinedOnly(_, _)
MissingOf_UndefinedOnly(data, fields) ==
    IF fields = <<>> THEN <<>>
    ELSE LET value == getNestedValue(data, Head(fields))
             rest == MissingOf_UndefinedOnly(data, Tail(fields))
         IN  IF value = Undefined
             THEN <<Head(fields)>> \o rest
             ELSE rest

RECURSIVE MissingOf(_, _)
MissingOf(data, fields) ==
    IF fields = <<>> THEN <<>>
    ELSE LET value == getNestedValue(data, Head(fields))
             rest == MissingOf(data, Tail(fields))
         IN  IF value = Undefined \/ value = Null
             THEN <<Head(fields)>> \o rest
             ELSE rest

\* as validateRequired, but the missing fields are not reported
validateRequired_NeverThrows(data, fields) == None

\* ResponseValidator.validateRequired: None, or the error it throws
validateRequired(data, fields) ==
    LET missing == MissingOf(data, fields)
    IN  IF Len(missing) > 0
        THEN Throw(ValidationError(missing[1], [missing |-> missing, data |-> data]))
        ELSE None

\* as ActualType, without the Array.isArray test: plain typeof
ActualType_Typeof(value) ==
    CASE value.t = "array" -> "object"
      [] value.t = "null" -> "object"
      [] OTHER -> value.t

\* Array.isArray(value) ? 'array' : typeof value
ActualType(value) ==
    CASE value.t = "array" -> "array"
      [] value.t = "null" -> "object"
      [] OTHER -> value.t

\* ResponseValidator.validateType
validateType(data, field, expectedType) ==
    LET value == getNestedValue(data, field)
        actualType == ActualType(value)
    IN  IF actualType # expectedType
        THEN Throw(ValidationError(field, [expected |-> expectedType,
                                           actual |-> actualType, value |-> value]))
        ELSE None

\* ResponseValidator.validateArrayNotEmpty
validateArrayNotEmpty(data, field) ==
    LET value == getNestedValue(data, field)
    IN  IF value.t # "array"
        THEN Throw(ValidationError(field, [value |-> value]))
        ELSE IF Len(value.a) = 0
             THEN Throw(ValidationError(field, [value |-> value]))
             ELSE None

\* ResponseValidator.validateStatus
validateStatus(response, expected) ==
    IF \A i \in 1..Len(expected) : expected[i] # response.status
    THEN Throw(ValidationError(<<"status">>, [expected |-> expected,
                                              actual |-> response.status]))
    ELSE None

\* BaseAPI.validateResponse: `if (expectedStatus)`
validateResponse(response, expectedStatus) ==
    IF expectedStatus # 0 THEN validateStatus(response, <<expectedStatus>>) ELSE None

\* the first check that throws decides; otherwise the value is returned
RECURSIVE Checked(_, _)
Checked(checks, value) ==
    IF checks = <<>> THEN Return(value)
    ELSE IF Head(checks).k = "throw" THEN Head(checks)
         ELSE Checked(Tail(checks), value)

\* Array.prototype.slice(0, end) for an integer end
slice0(a, end) ==
    LET k == IF end < 0
             THEN (IF Len(a) + end > 0 THEN Len(a) + end ELSE 0)
             ELSE (IF end < Len(a) THEN end ELSE Len(a))
    IN  SubSeq(a, 1, k)

(***************************************************************************)
(* HackerNewsClient: what each operation does with the envelope that       *)
(* BaseAPI.get returned.  An error thrown by the transport is not caught.  *)
(***************************************************************************)
ExpectedStatus == 200

\* as getItemBody, with the test of response.ok inverted
getItemBody_OkInverted(response) ==
    IF response.ok \/ response.data = Null
    THEN Return(Null)
    ELSE Checked(<<validateRequired(response.data, <<<<"id">>>>)>>, response.data)

\* HackerNewsClient.getItem after `await this.get(...)`
getItemBody(response) ==
    IF ~response.ok \/ response.data = Null
    THEN Return(Null)
    ELSE Checked(<<validateRequired(response.data, <<<<"id">>>>)>>, response.data)

\* as getUserBody, with the required fields listed in the opposite order
getUserBody_KarmaFirst(response) ==
    IF ~response.ok \/ response.data = Null
    THEN Return(Null)
    ELSE Checked(<<validateRequired(response.data,
                                    <<<<"karma">>, <<"created">>, <<"id">>>>)>>,
                 response.data)

\* HackerNewsClient.getUser after `await this.get(...)`
getUserBody(response) ==
    IF ~response.ok \/ response.data = Null
    THEN Return(Null)
    ELSE Checked(<<validateRequired(response.data,
                                    <<<<"id">>, <<"created">>, <<"karma">>>>)>>,
                 response.data)

\* getTopStories, getNewStories, getBestStories
NotEmptyListBody(response, limit) ==
    LET data == response.data
        wrapped == Obj([data |-> data])
    IN  Checked(<<validateResponse(response, ExpectedStatus),
                  validateType(wrapped, <<"data">>, "array"),
                  validateArrayNotEmpty(wrapped, <<"data">>)>>,
                IF data.t = "array" THEN Arr(slice0(data.a, limit)) ELSE Undefined)

\* getAskStories, getShowStories, getJobStories
ListBody(response, limit) ==
    LET data == response.data
        wrapped == Obj([data |-> data])
    IN  Checked(<<validateResponse(response, ExpectedStatus),
                  validateType(wrapped, <<"data">>, "array")>>,
                IF data.t = "array" THEN Arr(slice0(data.a, limit)) ELSE Undefined)

getTopStoriesBody(response, limit) == NotEmptyListBody(response, limit)
getNewStoriesBody(response, limit) == NotEmptyListBody(response, limit)
getBestStoriesBody(response, limit) == NotEmptyListBody(response, limit)
getAskStoriesBody(response, limit) == ListBody(response, limit)
getShowStoriesBody(response, limit) == ListBody(response, limit)
getJobStoriesBody(response, limit) == ListBody(response, limit)

getMaxItemIdBody(response) ==
    LET data == response.data
    IN  Checked(<<validateResponse(response, ExpectedStatus),
                  validateType(Obj([data |-> data]), <<"data">>, "number")>>,
                data)

OperationBody(op, arg, response) ==
    CASE op = "getItem" -> getItemBody(response)
      [] op = "getUser" -> getUserBody(response)
      [] op = "getTopStories" -> getTopStoriesBody(response, arg)
      [] op = "getNewStories" -> getNewStoriesBody(response, arg)
      [] op = "getBestStories" -> getBestStoriesBody(response, arg)
      [] op = "getAskStories" -> getAskStoriesBody(response, arg)
      [] op = "getShowStories" -> getShowStoriesBody(response, arg)
      [] op = "getJobStories" -> getJobStoriesBody(response, arg)
      [] op = "getMaxItemId" -> getMaxItemIdBody(response)

ItemIds == -1..MaxItemId
Limits == -1..MaxLimit
UserNames == <<"pg", "", "admin'--">>

\* BaseAPI.get -> HttpClient.get: a GET with no timeout or retry override
Get(op, arg, endpoint) ==
    Enter(op, arg, [method |-> "GET", url |-> endpoint,
                    timeout |-> 0, retries |-> AbsentR])

CallGetItem ==
    /\ CanCall
    /\ \E itemId \in ItemIds :
        Get("getItem", itemId, <<"/", "item", "/", ToString(itemId), ".json">>)
    /\ UNCHANGED <<cfgVars, concVars, seqVars, storyVars, pureVars>>

CallGetUser ==
    /\ CanCall
    /\ \E n \in DOMAIN UserNames :
        LET userId == UserNames[n]
        IN  Get("getUser", n, <<"/", "user", "/", userId, ".json">>)
    /\ UNCHANGED <<cfgVars, concVars, seqVars, storyVars, pureVars>>

CallGetTopStories ==
    /\ CanCall
    /\ \E limit \in Limits : Get("getTopStories", limit, <<"/", "topstories.json">>)
    /\ UNCHANGED <<cfgVars, concVars, seqVars, storyVars, pureVars>>

CallGetNewStories ==
    /\ CanCall
    /\ \E limit \in Limits : Get("getNewStories", limit, <<"/", "newstories.json">>)
    /\ UNCHANGED <<cfgVars, concVars, seqVars, storyVars, pureVars>>

CallGetBestStories ==
    /\ CanCall
    /\ \E limit \in Limits : Get("getBestStories", limit, <<"/", "beststories.json">>)
    /\ UNCHANGED <<cfgVars, concVars, seqVars, storyVars, pureVars>>

CallGetAskStories ==
    /\ CanCall
    /\ \E limit \in Limits : Get("getAskStories", limit, <<"/", "askstories.json">>)
    /\ UNCHANGED <<cfgVars, concVars, seqVars, storyVars, pureVars>>

CallGetShowStories ==
    /\ CanCall
    /\ \E limit \in Limits : Get("getShowStories", limit, <<"/", "showstories.json">>)
    /\ UNCHANGED <<cfgVars, concVars, seqVars, storyVars, pureVars>>

CallGetJobStories ==
    /\ CanCall
    /\ \E limit \in Limits : Get("getJobStories", limit, <<"/", "jobstories.json">>)
    /\ UNCHANGED <<cfgVars, concVars, seqVars, storyVars, pureVars>>

CallGetMaxItemId ==
    /\ CanCall
    /\ Get("getMaxItemId", 0, <<"/", "maxitem.json">>)
    /\ UNCHANGED <<cfgVars, concVars, seqVars, storyVars, pureVars>>

\* as OperationResumes, with the validation inside the retry loop: a payload
\* that fails it counts as a failed attempt
OperationResumes_ValidationRetried ==
    /\ pc = "settled"
    /\ IF reqOutcome.k = "return"
          /\ OperationBody(call.op, call.arg, reqOutcome.v).k = "throw"
       THEN /\ Catch(OperationBody(call.op, call.arg, reqOutcome.v).e)
            /\ UNCHANGED <<client, call, timers, resp>>
       ELSE /\ pc' = "done"
            /\ opOutcome' = IF reqOutcome.k = "throw"
                            THEN reqOutcome
                            ELSE OperationBody(call.op, call.arg, reqOutcome.v)
            /\ UNCHANGED <<client, call, attempt, fetches, delayMs, timers, resp,
                           lastError, reqOutcome>>
    /\ UNCHANGED <<cfgVars, concVars, seqVars, storyVars, pureVars>>

\* as OperationResumes, with every error of the transport caught and turned
\* into a null result
OperationResumes_ErrorToNull ==
    /\ pc = "settled"
    /\ pc' = "done"
    /\ opOutcome' = IF reqOutcome.k = "throw"
                    THEN Return(Null)
                    ELSE OperationBody(call.op, call.arg, reqOutcome.v)
    /\ UNCHANGED <<client, call, attempt, fetches, delayMs, timers, resp,
                   lastError, reqOutcome>>
    /\ UNCHANGED <<cfgVars, concVars, seqVars, storyVars, pureVars>>

\* the operation resumes after `await this.get(...)`
OperationResumes ==
    /\ pc = "settled"
    /\ pc' = "done"
    /\ opOutcome' = IF reqOutcome.k = "throw"
                    THEN reqOutcome
                    ELSE OperationBody(call.op, call.arg, reqOutcome.v)
    /\ UNCHANGED <<client, call, attempt, fetches, delayMs, timers, resp,
                   lastError, reqOutcome>>
    /\ UNCHANGED <<cfgVars, concVars, seqVars, storyVars, pureVars>>

\* the caller has taken the outcome; nothing of the call is kept
ForgetCall ==
    /\ pc' = "idle"
    /\ call' = NoCall
    /\ attempt' = 0
    /\ fetches' = 0
    /\ delayMs' = 0
    /\ resp' = NoResponse
    /\ lastError' = Undefined
    /\ reqOutcome' = None
    /\ opOutcome' = None
    /\ UNCHANGED <<client, timers>>

OutcomeConsumed ==
    /\ pc = "done"
    /\ ForgetCall
    /\ UNCHANGED <<cfgVars, concVars, seqVars, storyVars, pureVars>>

(***************************************************************************)
(* ConfigManager: the singleton, its initialisation from TEST_ENV and its  *)
(* public operations.  Of the configuration only the environment is kept;  *)
(* the logging and reporting settings play no part in a request.           *)
(***************************************************************************)
ConfigurationError(envName) == [name |-> "ConfigurationError", envName |-> envName]

\* values of process.env.TEST_ENV: not set, empty, a known or an unknown name
TestEnvValues ==
    {Undefined} \cup {StrLit(s) : s \in {"", "dev", "staging", "production", "qa"}}

\* names passed to setEnvironment
SetEnvironmentNames == {"dev", "staging", "production", "qa"}

\* as initializeConfig, with the dev profile standing in for an unknown name
initializeConfig_FallsBackToDev(envVar) ==
    LET envName == IF envVar = Undefined \/ envVar = StrLit("")
                   THEN "dev" ELSE envVar.s.v
    IN  IF envName \in EnvNames
        THEN Return([environment |-> environments[envName]])
        ELSE Return([environment |-> environments["dev"]])

\* ConfigManager.initializeConfig: the config it returns or the error thrown
initializeConfig(envVar) ==
    LET envName == IF envVar = Undefined \/ envVar = StrLit("")
                   THEN "dev" ELSE envVar.s.v
    IN  IF envName \in EnvNames
        THEN Return([environment |-> environments[envName]])
        ELSE Throw(ConfigurationError(envName))

\* an operation of ConfigManager ran to its end with this outcome
CfgDone(op, arg, outcome) ==
    /\ cfgCall' = [op |-> op, arg |-> arg, outcome |-> outcome]
    /\ UNCHANGED testEnv
    /\ UNCHANGED <<reqVars, concVars, seqVars, storyVars, pureVars>>

\* ConfigManager.getInstance, the module's default export included: the
\* constructor runs when no instance is there, and the instance is assigned
\* only when the constructor returned
GetInstance ==
    /\ IF configInstance = Undefined
       THEN LET r == initializeConfig(testEnv)
            IN  IF r.k = "throw"
                THEN /\ configInstance' = Undefined
                     /\ CfgDone("getInstance", "", r)
                ELSE /\ configInstance' = [config |-> r.v]
                     /\ CfgDone("getInstance", "", Return([config |-> r.v]))
       ELSE /\ UNCHANGED configInstance
            /\ CfgDone("getInstance", "", Return(configInstance))
    /\ UNCHANGED client

\* the methods are reached through the instance
HasInstance == configInstance # Undefined

GetConfig ==
    /\ HasInstance
    /\ CfgDone("getConfig", "", Return(configInstance.config))
    /\ UNCHANGED <<configInstance, client>>

GetEnvironment ==
    /\ HasInstance
    /\ CfgDone("getEnvironment", "", Return(configInstance.config.environment))
    /\ UNCHANGED <<configInstance, client>>

GetBaseUrl ==
    /\ HasInstance
    /\ CfgDone("getBaseUrl", "", Return(configInstance.config.environment.baseUrl))
    /\ UNCHANGED <<configInstance, client>>

GetTimeout ==
    /\ HasInstance
    /\ CfgDone("getTimeout", "", Return(getTimeout(configInstance.config.environment)))
    /\ UNCHANGED <<configInstance, client>>

GetRetries ==
    /\ HasInstance
    /\ CfgDone("getRetries", "", Return(getRetries(configInstance.config.environment)))
    /\ UNCHANGED <<configInstance, client>>

\* `environment.headers || {}`: no profile defines headers
GetHeaders ==
    /\ HasInstance
    /\ CfgDone("getHeaders", "", Return(Obj(<<>>)))
    /\ UNCHANGED <<configInstance, client>>

\* as SetEnvironment, with the dev profile standing in for an unknown name
SetEnvironment_FallsBackToDev ==
    /\ HasInstance
    /\ \E envName \in SetEnvironmentNames :
          /\ configInstance' =
                [configInstance EXCEPT !.config.environment =
                    IF envName \in EnvNames
                    THEN environments[envName] ELSE environments["dev"]]
          /\ CfgDone("setEnvironment", envName, Return(Undefined))
    /\ UNCHANGED client

\* as SetEnvironment, with the clients built so far following the switch
SetEnvironment_UpdatesClients ==
    /\ HasInstance
    /\ \E envName \in SetEnvironmentNames :
          IF envName \in EnvNames
          THEN /\ configInstance' =
                     [configInstance EXCEPT !.config.environment = environments[envName]]
               /\ CfgDone("setEnvironment", envName, Return(Undefined))
               /\ client' = IF client = Undefined
                            THEN Undefined ELSE NewClient(environments[envName])
          ELSE /\ UNCHANGED <<configInstance, client>>
               /\ CfgDone("setEnvironment", envName, Throw(ConfigurationError(envName)))

\* ConfigManager.setEnvironment
SetEnvironment ==
    /\ HasInstance
    /\ \E envName \in SetEnvironmentNames :
          IF envName \in EnvNames
          THEN /\ configInstance' =
                     [configInstance EXCEPT !.config.environment = environments[envName]]
               /\ CfgDone("setEnvironment", envName, Return(Undefined))
          ELSE /\ UNCHANGED configInstance
               /\ CfgDone("setEnvironment", envName, Throw(ConfigurationError(envName)))
    /\ UNCHANGED client

\* new HackerNewsClient(): the client captures timeout and retries of the
\* environment that is active now; the constructor reads them through
\* getHeaders, getTimeout and, last, getRetries
ConstructClient ==
    /\ HasInstance
    /\ client' = NewClient(configInstance.config.environment)
    /\ CfgDone("getRetries", "", Return(getRetries(configInstance.config.environment)))
    /\ UNCHANGED configInstance

\* the process starts: TEST_ENV is what the caller exported, nothing is loaded
ConfigInit ==
    /\ testEnv \in TestEnvValues
    /\ configInstance = Undefined
    /\ cfgCall = NoCfgCall
    /\ client = Undefined
    /\ NoCallInProgress
    /\ slots = <<>>
    /\ results = None
    /\ IdleSeq /\ IdleStory /\ IdlePure

ConfigNext ==
    \/ GetInstance
    \/ GetConfig
    \/ GetEnvironment
    \/ GetBaseUrl
    \/ GetTimeout
    \/ GetRetries
    \/ GetHeaders
    \/ SetEnvironment
    \/ ConstructClient

ConfigSpec == ConfigInit /\ [][ConfigNext]_vars

(***************************************************************************)
(* Concurrent calls: `ids.map(id => client.getItem(id))` awaited with      *)
(* Promise.all.  attempt, lastError, the response and the abort controller *)
(* are locals of HttpClient.request, so every call has a record of its     *)
(* own; the client's fields are only read.  The steps of the calls         *)
(* interleave freely.  The remote answers a fetch by the URL it was sent.  *)
(***************************************************************************)
ConcurrentIds == [i \in 1..NumCalls |-> i]

\* the record the remote holds under the id named in an item URL
RemoteRecord(url) ==
    LET n == CHOOSE n \in 1..NumCalls : ToString(n) = url[Len(url) - 1]
    IN  Obj([id |-> Num(n)])

\* answers to one fetch: the record, null for a missing item, a server error
ConcResponses(url) ==
    {[status |-> 200, ct |-> "application/json; charset=utf-8",
      body |-> JsonBody(RemoteRecord(url))],
     [status |-> 200, ct |-> "application/json; charset=utf-8",
      body |-> JsonBody(Null)],
     [status |-> 500, ct |-> "application/json; charset=utf-8",
      body |-> JsonBody(Null)]}

\* getItem(itemId) up to the first await of request: the first fetch is out
SlotStart(itemId) ==
    LET mr == IntR(client.retries)
        entered == LoopCond(0, mr)
    IN  [id |-> itemId,
         url |-> buildUrl(client.baseUrl,
                          <<"/", "item", "/", ToString(itemId), ".json">>),
         pc |-> IF entered THEN "fetching" ELSE "settled",
         attempt |-> 0,
         fetches |-> IF entered THEN 1 ELSE 0,
         lastError |-> Undefined,
         resp |-> NoResponse,
         reqOutcome |-> IF entered THEN None ELSE Throw(Undefined),
         outcome |-> None]

\* the catch block and the step to the next iteration, for a call that
\* reads `a` as its attempt counter
CatchStep(c, a, error) ==
    LET mr == IntR(client.retries)
    IN  IF IsFinalAttempt(a, mr)
        THEN [c EXCEPT !.lastError = error, !.resp = NoResponse, !.pc = "settled",
                       !.reqOutcome = Throw(handleAPIError(error, c.url))]
        ELSE IF LoopCond(a + 1, mr)
             THEN [c EXCEPT !.lastError = error, !.resp = NoResponse,
                            !.attempt = a + 1, !.pc = "backoff"]
             ELSE [c EXCEPT !.lastError = error, !.resp = NoResponse,
                            !.attempt = a + 1, !.pc = "settled",
                            !.reqOutcome = Throw(error)]

\* the largest attempt counter of all calls
SharedAttempt ==
    CHOOSE a \in {slots[i].attempt : i \in DOMAIN slots} :
        \A i \in DOMAIN slots : slots[i].attempt <= a

\* as SlotCatch, with one attempt counter kept in a field of the client and
\* shared by all calls
SlotCatch_SharedCounter(c, error) == CatchStep(c, SharedAttempt, error)

\* a failed attempt of one call: its own counter decides
SlotCatch(c, error) == CatchStep(c, c.attempt, error)

ConcFrame ==
    /\ UNCHANGED client
    /\ UNCHANGED <<cfgVars, reqVars, seqVars, storyVars, pureVars>>

\* the calls are made one after the other in the same synchronous run
StartConcurrentGetItems ==
    /\ slots = <<>>
    /\ slots' = [i \in 1..NumCalls |-> SlotStart(ConcurrentIds[i])]
    /\ UNCHANGED results
    /\ ConcFrame

ConcBackoffElapsed ==
    /\ slots # <<>>
    /\ \E i \in DOMAIN slots :
          /\ slots[i].pc = "backoff"
          /\ slots' = [slots EXCEPT ![i] =
                          [@ EXCEPT !.pc = "fetching", !.fetches = @ + 1]]
    /\ UNCHANGED results
    /\ ConcFrame

ConcFetchResolves ==
    /\ slots # <<>>
    /\ \E i \in DOMAIN slots :
          /\ slots[i].pc = "fetching"
          /\ \E r \in ConcResponses(slots[i].url) :
                slots' = [slots EXCEPT ![i] = [@ EXCEPT !.pc = "reading", !.resp = r]]
    /\ UNCHANGED results
    /\ ConcFrame

ConcFetchRejects ==
    /\ slots # <<>>
    /\ \E i \in DOMAIN slots :
          /\ slots[i].pc = "fetching"
          /\ slots' = [slots EXCEPT ![i] = SlotCatch(slots[i], TypeError)]
    /\ UNCHANGED results
    /\ ConcFrame

ConcTimeoutFires ==
    /\ slots # <<>>
    /\ \E i \in DOMAIN slots :
          /\ slots[i].pc = "fetching"
          /\ slots' = [slots EXCEPT ![i] = SlotCatch(slots[i], AbortError)]
    /\ UNCHANGED results
    /\ ConcFrame

ConcReadBody ==
    /\ slots # <<>>
    /\ \E i \in DOMAIN slots :
          /\ slots[i].pc = "reading"
          /\ LET c == slots[i]
                 d == Decode(c.resp)
                 o == IF d.k = "throw" THEN d ELSE AfterDecode(c.resp, d.v, c.url)
             IN  slots' = [slots EXCEPT ![i] =
                    IF o.k = "throw"
                    THEN SlotCatch(c, o.e)
                    ELSE [c EXCEPT !.pc = "settled", !.resp = NoResponse,
                                   !.reqOutcome = o]]
    /\ UNCHANGED results
    /\ ConcFrame

\* getItem resumes after `await this.get(...)`
ConcOperationResumes ==
    /\ slots # <<>>
    /\ \E i \in DOMAIN slots :
          /\ slots[i].pc = "settled"
          /\ slots' = [slots EXCEPT ![i] =
                [@ EXCEPT !.pc = "done",
                          !.outcome = IF slots[i].reqOutcome.k = "throw"
                                      THEN slots[i].reqOutcome
                                      ELSE getItemBody(slots[i].reqOutcome.v)]]
    /\ UNCHANGED results
    /\ ConcFrame

\* Promise.all: every promise fulfilled, the values in the order of the calls
JoinResolves ==
    /\ slots # <<>>
    /\ results = None
    /\ \A i \in DOMAIN slots : slots[i].outcome.k = "return"
    /\ results' = Return([i \in DOMAIN slots |-> slots[i].outcome.v])
    /\ UNCHANGED slots
    /\ ConcFrame

\* Promise.all: a promise rejected; the other calls run on
JoinRejects ==
    /\ slots # <<>>
    /\ results = None
    /\ \E i \in DOMAIN slots :
          /\ slots[i].outcome.k = "throw"
          /\ results' = slots[i].outcome
    /\ UNCHANGED slots
    /\ ConcFrame

ConcNext ==
    \/ StartConcurrentGetItems
    \/ ConcBackoffElapsed
    \/ ConcFetchResolves
    \/ ConcFetchRejects
    \/ ConcTimeoutFires
    \/ ConcReadBody
    \/ ConcOperationResumes
    \/ JoinResolves
    \/ JoinRejects

ConcSpec == Init /\ [][ConcNext]_vars

(***************************************************************************)
(* The same call issued twice in sequence on one client, against a remote  *)
(* that answers the second call as it answered the first: the k-th fetch   *)
(* of either call gets the k-th answer of `script`.                        *)
(***************************************************************************)
ScriptLen == MaxRetryOverride + 1

\* the non-null value the replayed remote serves for an operation
ReplayValue(op) == IF op = "getItem" THEN Obj([id |-> Num(1)]) ELSE Num(1)

ReplayResponses(op) ==
    {r \in Responses(op) :
        /\ r.ct = "application/json; charset=utf-8"
        /\ r.status \in {200, 404}
        /\ r.body \in {JsonBody(Null), JsonBody(ReplayValue(op))}}

\* an answer to one fetch: a response, a network error, or silence until
\* the timeout
ReplayAnswers(op) ==
    {[k |-> "response", r |-> r] : r \in ReplayResponses(op)}
    \cup {[k |-> "reject"], [k |-> "timeout"]}

SeqCalls ==
    {[op |-> "request", arg |-> 0, retries |-> r] : r \in RetryOverrides}
    \cup {[op |-> "getItem", arg |-> 1, retries |-> AbsentR]}

SeqPath(c) ==
    IF c.op = "getItem"
    THEN <<"/", "item", "/", ToString(c.arg), ".json">>
    ELSE <<"/", "maxitem.json">>

SeqInit ==
    /\ Loaded
    /\ seqCall \in SeqCalls
    /\ script \in [1..ScriptLen -> ReplayAnswers(seqCall.op)]
    /\ round = 0
    /\ firstOutcome = None
    /\ IdleStory /\ IdlePure

\* the call is issued: the first time, and again once the first outcome
\* has been taken
SeqIssue ==
    /\ CanCall
    /\ round < 2
    /\ Enter(seqCall.op, seqCall.arg,
             [method |-> "GET", url |-> SeqPath(seqCall),
              timeout |-> 0, retries |-> seqCall.retries])
    /\ round' = round + 1
    /\ UNCHANGED <<script, seqCall, firstOutcome>>
    /\ UNCHANGED <<cfgVars, concVars, storyVars, pureVars>>

SeqFetchResolves ==
    /\ pc = "fetching"
    /\ script[fetches].k = "response"
    /\ FetchResolves
    /\ resp' = script[fetches].r

SeqFetchRejects ==
    /\ pc = "fetching"
    /\ script[fetches].k = "reject"
    /\ FetchRejects

SeqTimeoutFires ==
    /\ pc = "fetching"
    /\ script[fetches].k = "timeout"
    /\ TimeoutFires

\* the caller takes the outcome of the first call
SeqFirstOutcomeTaken ==
    /\ pc = "done"
    /\ round = 1
    /\ firstOutcome' = [req |-> reqOutcome, op |-> opOutcome]
    /\ ForgetCall
    /\ UNCHANGED <<script, seqCall, round>>
    /\ UNCHANGED <<cfgVars, concVars, storyVars, pureVars>>

SeqNext ==
    \/ SeqIssue
    \/ BackoffElapsed
    \/ SeqFetchResolves
    \/ SeqFetchRejects
    \/ SeqTimeoutFires
    \/ StaleTimerFires
    \/ ReadBody
    \/ OperationResumes
    \/ SeqFirstOutcomeTaken

SeqSpec == SeqInit /\ [][SeqNext]_vars

(***************************************************************************)
(* Helpers applied once to arguments drawn from bounded sets: `pureIn` is  *)
(* the application, `pureOut` what it returned or threw.                   *)
(***************************************************************************)
Slashes(n) == [i \in 1..n |-> "/"]

\* base URLs: the Hacker News base and a bare host, with trailing slashes
BaseUrls ==
    {b \o Slashes(n) : b \in {HNBaseUrl, <<"http://", "localhost">>}, n \in 0..MaxSlashes}

\* targets: relative paths with leading slashes, the empty path, full URLs
Targets ==
    {Slashes(n) \o p : n \in 0..MaxSlashes,
                       p \in {<<"maxitem.json">>, <<"item", "/", "1", ".json">>, <<>>}}
    \cup {<<"http://", "localhost", "/", "x">>,
          <<"https://", "hacker-news.firebaseio.com", "/", "v0", "/", "maxitem.json">>}

BuildUrlInputs == {[fn |-> "buildUrl", baseUrl |-> b, path |-> p] : b \in BaseUrls, p \in Targets}

\* data handed to validateRequired: null, or an object with up to two
\* properties that hold nothing, null, 0, or an object of the same kind with
\* plain values
PropNames == {"a", "b"}
PlainValues == {Undefined, Null, Num(0)}
ObjectsOver(values) == {Obj(f) : f \in UNION {[S -> values] : S \in SUBSET PropNames}}
NestedData == {Null} \cup ObjectsOver(PlainValues \cup ObjectsOver(PlainValues))

\* dot-separated paths, the dot a token of its own
DotPaths == {<<"a">>, <<"b">>, <<"a", ".", "a">>, <<"a", ".", "b">>, <<"b", ".", "a">>}

ValidateRequiredInputs ==
    {[fn |-> "validateRequired", data |-> d, fields |-> fs] :
        d \in NestedData, fs \in SeqsUpTo(DotPaths, MaxFields)}

(***************************************************************************)
(* The JSON Schemas of the item shapes and of the user, and the validators *)
(* compiled from them.  A schema is a record of the keywords it carries.   *)
(***************************************************************************)
NumberArray == [type |-> "array", items |-> [type |-> "number"]]

itemProperties ==
    [id |-> [type |-> "number"],
     type |-> [type |-> "string", enum |-> {"job", "story", "comment", "poll", "pollopt"}],
     by |-> [type |-> "string"],
     time |-> [type |-> "number"],
     text |-> [type |-> "string"],
     dead |-> [type |-> "boolean"],
     parent |-> [type |-> "number"],
     poll |-> [type |-> "number"],
     kids |-> NumberArray,
     url |-> [type |-> "string"],
     score |-> [type |-> "number"],
     title |-> [type |-> "string"],
     parts |-> NumberArray,
     descendants |-> [type |-> "number"],
     deleted |-> [type |-> "boolean"]]

\* { ...base, ...own }
Spread(base, own) ==
    [f \in DOMAIN base \cup DOMAIN own |-> IF f \in DOMAIN own THEN own[f] ELSE base[f]]

itemSchema ==
    [type |-> "object", properties |-> itemProperties,
     required |-> <<"id">>, additionalProperties |-> FALSE]

\* as storySchema, with the type of a story any string
storySchema_AnyType ==
    [type |-> "object",
     properties |-> Spread(itemProperties,
                           [type |-> [type |-> "string"],
                            title |-> [type |-> "string"],
                            by |-> [type |-> "string"],
                            time |-> [type |-> "number"]]),
     required |-> <<"id", "type", "title", "by", "time">>,
     additionalProperties |-> FALSE]

storySchema ==
    [type |-> "object",
     properties |-> Spread(itemProperties,
                           [type |-> [type |-> "string", const |-> "story"],
                            title |-> [type |-> "string"],
                            by |-> [type |-> "string"],
                            time |-> [type |-> "number"]]),
     required |-> <<"id", "type", "title", "by", "time">>,
     additionalProperties |-> FALSE]

commentSchema ==
    [type |-> "object",
     properties |-> Spread(itemProperties,
                           [type |-> [type |-> "string", const |-> "comment"],
                            by |-> [type |-> "string"],
                            parent |-> [type |-> "number"],
                            text |-> [type |-> "string"],
                            time |-> [type |-> "number"]]),
     required |-> <<"id", "type", "by", "parent", "text", "time">>,
     additionalProperties |-> FALSE]

jobSchema ==
    [type |-> "object",
     properties |-> Spread(itemProperties,
                           [type |-> [type |-> "string", const |-> "job"],
                            title |-> [type |-> "string"],
                            by |-> [type |-> "string"],
                            time |-> [type |-> "number"]]),
     required |-> <<"id", "type", "title", "by", "time">>,
     additionalProperties |-> FALSE]

userSchema ==
    [type |-> "object",
     properties |-> [id |-> [type |-> "string"],
                     created |-> [type |-> "number"],
                     karma |-> [type |-> "number"],
                     about |-> [type |-> "string"],
                     submitted |-> NumberArray],
     required |-> <<"id", "created", "karma">>,
     additionalProperties |-> FALSE]

Shapes == {"item", "story", "comment", "job", "user"}

SchemaOf(shape) ==
    CASE shape = "item" -> itemSchema
      [] shape = "story" -> storySchema
      [] shape = "comment" -> commentSchema
      [] shape = "job" -> jobSchema
      [] shape = "user" -> userSchema

\* the JSON type of a decoded value
JsonType(v) == v.t

Range(s) == {s[i] : i \in DOMAIN s}

\* the validator ajv.compile(schema) applied to a value: type, enum, const,
\* items, required, properties, additionalProperties
RECURSIVE Valid(_, _)
Valid(schema, v) ==
    /\ ("type" \in DOMAIN schema) => JsonType(v) = schema.type
    /\ ("enum" \in DOMAIN schema) => \E e \in schema.enum : v = StrLit(e)
    /\ ("const" \in DOMAIN schema) => v = StrLit(schema.const)
    /\ ("items" \in DOMAIN schema /\ v.t = "array") =>
          \A i \in DOMAIN v.a : Valid(schema.items, v.a[i])
    /\ ("required" \in DOMAIN schema /\ v.t = "object") =>
          Range(schema.required) \subseteq DOMAIN v.f
    /\ ("properties" \in DOMAIN schema /\ v.t = "object") =>
          \A f \in DOMAIN v.f \cap DOMAIN schema.properties :
              Valid(schema.properties[f], v.f[f])
    /\ ("additionalProperties" \in DOMAIN schema /\ v.t = "object"
          /\ ~schema.additionalProperties) =>
          DOMAIN v.f \subseteq DOMAIN schema.properties

\* a well-formed record of each shape
WellFormed(shape) ==
    CASE shape = "item" -> Obj([id |-> Num(1)])
      [] shape = "story" ->
            Obj([id |-> Num(1), type |-> StrLit("story"), title |-> StrLit("x"),
                 by |-> StrLit("x"), time |-> Num(1)])
      [] shape = "comment" ->
            Obj([id |-> Num(1), type |-> StrLit("comment"), by |-> StrLit("x"),
                 parent |-> Num(1), text |-> StrLit("x"), time |-> Num(1)])
      [] shape = "job" ->
            Obj([id |-> Num(1), type |-> StrLit("job"), title |-> StrLit("x"),
                 by |-> StrLit("x"), time |-> Num(1)])
      [] shape = "user" ->
            Obj([id |-> StrLit("x"), created |-> Num(1), karma |-> Num(1)])

\* values a field is set to
SampleValues ==
    {Num(1), StrLit("poll"), StrLit("x"), Null, Bool(TRUE),
     Arr(<<Num(1)>>), Arr(<<StrLit("x")>>)}

\* optional fields set or dropped: one of each kind of declaration (a string
\* with enum or const, a string, an array of numbers, a boolean)
OptionalTried == {"type", "title", "kids", "dead", "about", "submitted"}

\* the fields set or dropped: the required ones, the optional ones above
\* where the schema declares them, and one that no schema declares
FieldsTried(shape) ==
    LET schema == SchemaOf(shape)
    IN  Range(schema.required)
        \cup (DOMAIN schema.properties \cap OptionalTried)
        \cup {"extra"}

Drop(r, f) == Obj([g \in DOMAIN r.f \ {f} |-> r.f[g]])
Put(r, f, v) == Obj([g \in DOMAIN r.f \cup {f} |-> IF g = f THEN v ELSE r.f[g]])

\* the records n edits away from the given ones
RECURSIVE Edited(_, _, _)
Edited(recs, fields, n) ==
    IF n = 0 THEN recs
    ELSE LET prev == Edited(recs, fields, n - 1)
         IN  prev \cup {Drop(r, f) : r \in prev, f \in fields}
                  \cup {Put(r, f, v) : r \in prev, f \in fields, v \in SampleValues}

RecordsOf == [shape \in Shapes |-> Edited({WellFormed(shape)}, FieldsTried(shape), MaxEdits)]

\* a record checked as one shape: by the schema, and by validateRequired
\* and validateType with what the schema declares
CheckShapeInputs ==
    UNION {{[fn |-> "checkShape", shape |-> s, record |-> r] : r \in RecordsOf[s]} :
           s \in Shapes}

\* a record handed to the four validators of the item family
ItemSchemasInputs ==
    {[fn |-> "itemSchemas", record |-> r] : r \in UNION {RecordsOf[s] : s \in Shapes}}

PureInputs ==
    BuildUrlInputs \cup ValidateRequiredInputs \cup CheckShapeInputs \cup ItemSchemasInputs

\* the helpers take nothing from the configuration: one profile is enough
PureInit ==
    /\ pureIn \in PureInputs
    /\ pureOut = None
    /\ Loaded
    /\ testEnv = StrLit("dev")
    /\ IdleSeq /\ IdleStory

\* the helper ran: only its result is new
Applied(outcome) ==
    /\ pureOut' = outcome
    /\ UNCHANGED <<pureIn, client>>
    /\ UNCHANGED <<cfgVars, reqVars, concVars, seqVars, storyVars>>

ApplyBuildUrl ==
    /\ pureIn.fn = "buildUrl"
    /\ pureOut = None
    /\ Applied(Return(buildUrl(pureIn.baseUrl, pureIn.path)))

\* a helper declared void returns undefined
VoidOutcome(r) == IF r = None THEN Return(Undefined) ELSE r

ApplyValidateRequired ==
    /\ pureIn.fn = "validateRequired"
    /\ pureOut = None
    /\ Applied(VoidOutcome(validateRequired(pureIn.data, pureIn.fields)))

\* the required list of a schema as the paths validateRequired takes
RequiredPaths(schema) == [i \in DOMAIN schema.required |-> <<schema.required[i]>>]

\* validateShape(record), then validateRequired with the schema's required
\* list, then validateType for every declared field the record has
ApplyCheckShape ==
    /\ pureIn.fn = "checkShape"
    /\ pureOut = None
    /\ LET schema == SchemaOf(pureIn.shape)
           r == pureIn.record
       IN  Applied([k |-> "checked",
                    schema |-> Valid(schema, r),
                    required |-> VoidOutcome(validateRequired(r, RequiredPaths(schema))),
                    types |-> [f \in DOMAIN r.f \cap DOMAIN schema.properties |->
                                 VoidOutcome(validateType(r, <<f>>, schema.properties[f].type))]])

\* validateItem, validateStory, validateComment, validateJob on one record
ApplyItemSchemas ==
    /\ pureIn.fn = "itemSchemas"
    /\ pureOut = None
    /\ Applied([k |-> "verdicts",
                item |-> Valid(itemSchema, pureIn.record),
                story |-> Valid(storySchema, pureIn.record),
                comment |-> Valid(commentSchema, pureIn.record),
                job |-> Valid(jobSchema, pureIn.record)])

PureNext ==
    \/ ApplyBuildUrl
    \/ ApplyValidateRequired
    \/ ApplyCheckShape
    \/ ApplyItemSchemas

PureSpec == PureInit /\ [][PureNext]_vars

(***************************************************************************)
(* HackerNewsClient.getTopStoryWithComment: getTopStories(1), then getItem *)
(* of the first id, then getItem of the story's first kid, one after the   *)
(* other on the same client.  `story` is the position of the method and    *)
(* what it holds in its locals; each call goes through request as any      *)
(* other.                                                                  *)
(***************************************************************************)
JsonContentType == "application/json; charset=utf-8"

StoryRecords ==
    LET base == Obj([id |-> Num(1), title |-> StrLit("T")])
    IN  UNION {{r, Put(r, "kids", Arr(<<>>)), Put(r, "kids", Arr(<<2>>))} :
               r \in {base, Put(base, "url", StrLit("u"))}}

CommentRecords ==
    {Obj([id |-> Num(2)]),
     Obj([id |-> Num(2), text |-> Null]),
     Obj([id |-> Num(2), text |-> StrLit("")]),
     Obj([id |-> Num(2), text |-> StrLit("c")])}

\* what the remote serves on the endpoint the method is calling
StoryServed(at) ==
    CASE at = "topStories" -> {Arr(<<>>), Arr(<<1>>), Arr(<<1, 2>>)}
      [] at = "story" -> {Null} \cup StoryRecords
      [] at = "comment" -> {Null} \cup CommentRecords

StoryResponses(at) ==
    {[status |-> 200, ct |-> JsonContentType, body |-> JsonBody(v)] : v \in StoryServed(at)}
    \cup {[status |-> 404, ct |-> JsonContentType, body |-> JsonBody(Null)]}

\* a call the method has not made
NotAsked == [req |-> None, err |-> Undefined, out |-> None]

\* how the call that just ended went: what request returned or threw, the
\* last error it caught, and what the operation gave the method
StageDone == [req |-> reqOutcome, err |-> lastError, out |-> opOutcome]

StoryInit == Loaded /\ IdleSeq /\ IdleStory /\ IdlePure

\* getTopStoryWithComment is called: `await this.getTopStories(1)`
StoryStart ==
    /\ CanCall
    /\ story = NoStory
    /\ Get("getTopStories", 1, <<"/", "topstories.json">>)
    /\ story' = [at |-> "topStories", top |-> NotAsked, item |-> NotAsked,
                 kid |-> NotAsked, result |-> Undefined]
    /\ UNCHANGED storyOutcome
    /\ UNCHANGED <<cfgVars, concVars, seqVars, pureVars>>

\* fetch resolves with the response head; clearTimeout
StoryFetchResolves ==
    /\ pc = "fetching"
    /\ attempt \in timers
    /\ \E r \in StoryResponses(story.at) : resp' = r
    /\ timers' = timers \ {attempt}
    /\ pc' = "reading"
    /\ UNCHANGED <<client, call, attempt, fetches, delayMs, lastError, reqOutcome, opOutcome>>
    /\ UNCHANGED <<cfgVars, concVars, seqVars, storyVars, pureVars>>

\* the value is truthy: `if (v)`
Truthy(v) == v \notin {Undefined, Null, StrLit(""), Num(0), Bool(FALSE)}

\* the method returns or throws
StoryReturns(locals, outcome) ==
    /\ story' = [locals EXCEPT !.at = "done"]
    /\ storyOutcome' = outcome
    /\ ForgetCall

\* the method goes on to `await this.getItem(id)`
StoryCalls(locals, id) ==
    /\ story' = locals
    /\ Get("getItem", id, <<"/", "item", "/", ToString(id), ".json">>)
    /\ UNCHANGED storyOutcome

\* the awaited call has ended and the method resumes: an error of the call
\* leaves the method as it is; otherwise the next call is made or the
\* result returned
StoryResumes ==
    /\ pc = "done"
    /\ timers = {}
    /\ story.at \in {"topStories", "story", "comment"}
    /\ CASE story.at = "topStories" ->
            LET s == [story EXCEPT !.top = StageDone]
                ids == opOutcome.v
            IN  IF opOutcome.k = "throw" THEN StoryReturns(s, opOutcome)
                ELSE IF ids.t # "array" \/ Len(ids.a) = 0
                THEN StoryReturns(s, Return(Null))
                ELSE StoryCalls([s EXCEPT !.at = "story"], ids.a[1])
         [] story.at = "story" ->
            LET s == [story EXCEPT !.item = StageDone]
                rec == opOutcome.v
                result == [title |-> Prop(rec, "title"), url |-> Prop(rec, "url"),
                           top_comment |-> StrLit("No comments found.")]
                kids == Prop(rec, "kids")
            IN  IF opOutcome.k = "throw" THEN StoryReturns(s, opOutcome)
                ELSE IF ~Truthy(rec) THEN StoryReturns(s, Return(Null))
                ELSE IF Truthy(kids) /\ kids.t = "array" /\ Len(kids.a) > 0
                THEN StoryCalls([s EXCEPT !.at = "comment", !.result = result], kids.a[1])
                ELSE StoryReturns(s, Return(Obj(result)))
         [] story.at = "comment" ->
            LET s == [story EXCEPT !.kid = StageDone]
                firstComment == opOutcome.v
                text == Prop(firstComment, "text")
            IN  IF opOutcome.k = "throw" THEN StoryReturns(s, opOutcome)
                ELSE StoryReturns(s, Return(Obj(
                        IF Truthy(firstComment) /\ Truthy(text)
                        THEN [story.result EXCEPT !.top_comment = text]
                        ELSE story.result)))
    /\ UNCHANGED <<cfgVars, concVars, seqVars, pureVars>>

StoryNext ==
    \/ StoryStart
    \/ BackoffElapsed
    \/ StoryFetchResolves
    \/ FetchRejects
    \/ TimeoutFires
    \/ StaleTimerFires
    \/ ReadBody
    \/ OperationResumes
    \/ StoryResumes

StorySpec == StoryInit /\ [][StoryNext]_vars

Next ==
    \/ CallRequest
    \/ CallGetItem
    \/ CallGetUser
    \/ CallGetTopStories
    \/ CallGetNewStories
    \/ CallGetBestStories
    \/ CallGetAskStories
    \/ CallGetShowStories
    \/ CallGetJobStories
    \/ CallGetMaxItemId
    \/ BackoffElapsed
    \/ FetchResolves
    \/ FetchRejects
    \/ TimeoutFires
    \/ StaleTimerFires
    \/ ReadBody
    \/ OperationResumes
    \/ OutcomeConsumed

Spec == Init /\ [][Next]_vars

\* the event loop runs every ready continuation and every due timer
FairSpec == Spec /\ WF_vars(Next)

(***************************************************************************)
(* Properties.                                                             *)
(***************************************************************************)
\* the retry budget of the call in progress is a count: an integer >= 0
CountBudget == call.maxRetries.k = "int" /\ call.maxRetries.n >= 0

RequestReturned == reqOutcome.k = "return"
RequestThrew == reqOutcome.k = "throw"

\* the body of a response as the caller is to see it: parsed JSON under a
\* JSON content type, the raw text otherwise
ExpectedData(r) ==
    IF r.ct = "application/json; charset=utf-8" THEN r.body.v ELSE Str(r.body)

\* C1: retry success.  When request returns, the k = attempt earlier attempts
\* have all failed, exactly k + 1 fetches have been issued, none is in
\* flight or scheduled, and the envelope returned is the one of attempt
\* k + 1: the status, headers and decoded body of its 2xx response.
C1_RetrySuccess ==
    RequestReturned =>
        /\ attempt <= call.maxRetries.n
        /\ fetches = attempt + 1
        /\ pc \in {"settled", "done"}
        /\ resp.status \in 200..299
        /\ resp.body.k = "json" \/ resp.body.k = "text"
        /\ reqOutcome.v.status = resp.status
        /\ reqOutcome.v.headers = resp.ct
        /\ reqOutcome.v.data = ExpectedData(resp)

\* two failed attempts, then a 2xx response on the third
C1_Witness ==
    /\ RequestReturned
    /\ attempt = 2
    /\ fetches = 3
    /\ lastError # Undefined

\* the attempt in `resp` received a whole response: the head arrived and the
\* body was read to its end and decoded
ResponseReceived ==
    /\ resp # NoResponse
    /\ resp.body.k \in {"json", "text"}
    /\ resp.ct = "application/json; charset=utf-8" => resp.body.k = "json"

\* the status the final attempt observed, 500 standing in when it ended
\* without a response of its own (timeout, network error, unreadable body)
FinalStatus ==
    IF ResponseReceived THEN resp.status ELSE 500

C3_RequestTerminates ==
    (pc \in {"backoff", "fetching", "reading"}) ~> (reqOutcome.k # "none")

\* the last response of a getItem / getUser call says "not there": either a
\* 2xx envelope with a null payload, or a non-2xx response on the final attempt
AbsentAnswer ==
    \/ RequestReturned /\ reqOutcome.v.data = Null
    \/ /\ RequestThrew
       /\ lastError # Undefined
       /\ lastError.name = "APIError"
       /\ ~ResponseOk(lastError.statusCode)

\* C4: getItem returns null, and does not throw, when the item does not
\* exist: on a 2xx response with a null payload and on a non-2xx response.
C4_GetItemAbsentIsNull ==
    (pc = "done" /\ call.op = "getItem" /\ AbsentAnswer) => opOutcome = Return(Null)

\* C5: getUser returns null, and never throws, for a username that names no
\* user, whether the remote answers with a null payload or an error status.
C5_GetUserAbsentIsNull ==
    (pc = "done" /\ call.op = "getUser" /\ AbsentAnswer) =>
        (opOutcome.k = "return" /\ opOutcome.v = Null)

Min(a, b) == IF a < b THEN a ELSE b

\* the remote answered the list call with status 200 and a JSON array
ListServed ==
    /\ pc = "done"
    /\ call.op \in ListOps
    /\ RequestReturned
    /\ reqOutcome.v.status = 200
    /\ reqOutcome.v.data.t = "array"

\* C6: each id-list operation, for a limit >= 0 and a server list of any
\* length (zero included), returns the first min(limit, length) ids of the
\* server list in server order and does not throw.
C6_ListPrefix ==
    (ListServed /\ call.arg >= 0) =>
        LET server == reqOutcome.v.data.a
            n == Min(call.arg, Len(server))
        IN  opOutcome = Return(Arr([i \in 1..n |-> server[i]]))

\* C7: getTopStories with a negative limit returns an empty array: whatever
\* array it returns for a limit below zero has no element.
C7_NegativeLimitEmpty ==
    (ListServed /\ call.op = "getTopStories" /\ call.arg < 0
                /\ opOutcome.k = "return") =>
        opOutcome.v = Arr(<<>>)

\* C8: every envelope request returns has ok = true and a status in
\* [200,299].
C8_ReturnedEnvelopeOk ==
    RequestReturned =>
        /\ reqOutcome.v.ok = TRUE
        /\ reqOutcome.v.status >= 200
        /\ reqOutcome.v.status <= 299

\* a 2xx status other than 200 is returned as well
C8_Witness ==
    /\ RequestReturned
    /\ reqOutcome.v.status = 201
    /\ reqOutcome.v.ok

\* C9: whatever request throws is an APIError with a numeric status code and
\* the target URL, for every descriptor, retry override included.
C9_ThrowsOnlyAPIError ==
    RequestThrew =>
        /\ "name" \in DOMAIN reqOutcome.e
        /\ reqOutcome.e.name = "APIError"
        /\ reqOutcome.e.statusCode \in Int
        /\ reqOutcome.e.endpoint = call.url

C11_LinearBackoff ==
    [][ /\ (fetches' = fetches + 1) =>
              \/ pc = "idle" /\ attempt' = 0 /\ delayMs = 0
              \/ /\ pc = "backoff"
                 /\ attempt' = attempt
                 /\ attempt \in 1..call.maxRetries.n
                 /\ delayMs = 1000 * attempt
        /\ (pc' = "backoff" /\ pc # "backoff") =>
              /\ pc \in {"fetching", "reading"}
              /\ fetches = attempt + 1
              /\ lastError' # Undefined
              /\ attempt' = attempt + 1
              /\ delayMs' = 1000 * attempt'
        /\ (RequestThrew' /\ ~RequestThrew) =>
              /\ pc # "backoff"
              /\ delayMs = 0
              /\ delayMs' = 0
      ]_vars

\* the delay before the second retry is being awaited
C11_Witness ==
    /\ pc = "backoff"
    /\ attempt = 2
    /\ delayMs = 2000
    /\ fetches = 2

\* C12: per-attempt cancellation.  Each attempt has a timer and an abort
\* signal of its own.  When the timer of the attempt in flight goes, either
\* the response arrived (the timer is cleared) or the attempt is aborted:
\* the abort ends that attempt only, issues no fetch, leaves every other
\* timer pending, and moves the loop to the backoff of attempt i + 1 when
\* i < retries (to the throw when i = retries).  The timer of any other
\* attempt changes nothing: not the attempt in flight, not a backoff.
C12_PerAttemptAbort ==
    [][ \A i \in timers \ timers' :
            IF i = attempt /\ pc = "fetching"
            THEN \/ /\ pc' = "reading"
                    /\ UNCHANGED <<attempt, fetches, lastError, reqOutcome>>
                 \/ /\ lastError' = AbortError
                    /\ timers' = timers \ {i}
                    /\ fetches' = fetches
                    /\ IF attempt < call.maxRetries.n
                       THEN /\ attempt' = attempt + 1
                            /\ pc' = "backoff"
                            /\ reqOutcome' = None
                       ELSE /\ attempt' = attempt
                            /\ RequestThrew'
            ELSE /\ timers' = timers \ {i}
                 /\ UNCHANGED <<pc, attempt, fetches, delayMs, resp, lastError,
                                reqOutcome, opOutcome>>
      ]_vars

\* attempt 0 ended in a network error and left its timer pending, attempt 1
\* was aborted by its own timer, attempt 2 is in flight
C12_Witness ==
    /\ pc = "fetching"
    /\ attempt = 2
    /\ lastError = AbortError
    /\ timers = {0, 2}

\* the remote answered the call with a 2xx JSON response whose body is `v`
Answered2xxJson(v) ==
    /\ RequestReturned
    /\ resp.status \in 200..299
    /\ resp.ct = "application/json; charset=utf-8"
    /\ resp.body = JsonBody(v)

\* C14: when the remote holds an item under the requested id and answers
\* with a 2xx JSON response carrying that item's record, getItem returns
\* that record as decoded, nothing added or removed, and its id is the
\* requested id.
C14_GetItemReturnsRecord ==
    \A rec \in ItemRecords :
        (/\ pc = "done"
         /\ call.op = "getItem"
         /\ rec.f.id = Num(call.arg)
         /\ Answered2xxJson(rec)) =>
            /\ opOutcome = Return(rec)
            /\ opOutcome.v.f.id.n = call.arg

\* item MaxItemId was requested and returned after a retry
C14_Witness ==
    /\ pc = "done"
    /\ call.op = "getItem"
    /\ call.arg = MaxItemId
    /\ attempt = 1
    /\ Answered2xxJson(Obj([id |-> Num(MaxItemId)]))
    /\ opOutcome = Return(Obj([id |-> Num(MaxItemId)]))

\* the value is an object whose field `name` is present and not null
HasField(v, name) ==
    /\ v.t = "object"
    /\ name \in DOMAIN v.f
    /\ v.f[name].t \notin {"undefined", "null"}

ThrewValidationError(field) ==
    /\ opOutcome.k = "throw"
    /\ "name" \in DOMAIN opOutcome.e
    /\ opOutcome.e.name = "ValidationError"
    /\ opOutcome.e.field = field

\* C15 as stated: every non-null value getItem returns has an id that is
\* present, not null and not negative, and a 2xx payload without such an id
\* makes getItem throw a ValidationError.
C15_GetItemIdNonNegative ==
    (pc = "done" /\ call.op = "getItem") =>
        /\ (opOutcome.k = "return" /\ opOutcome.v # Null) =>
              /\ HasField(opOutcome.v, "id")
              /\ opOutcome.v.f.id.t = "number"
              /\ opOutcome.v.f.id.n >= 0
        /\ (/\ RequestReturned
            /\ reqOutcome.v.data # Null
            /\ ~(/\ HasField(reqOutcome.v.data, "id")
                 /\ reqOutcome.v.data.f.id.t = "number"
                 /\ reqOutcome.v.data.f.id.n >= 0)) =>
              ThrewValidationError(<<"id">>)

\* C15: every non-null value getItem returns has an id field that is
\* present and not null; a 2xx payload that is not null and has no such id
\* is never returned: getItem throws a ValidationError on the field id.
C15_GetItemIdPresent ==
    (pc = "done" /\ call.op = "getItem") =>
        /\ (opOutcome.k = "return" /\ opOutcome.v # Null) =>
              HasField(opOutcome.v, "id")
        /\ (/\ RequestReturned
            /\ reqOutcome.v.data # Null
            /\ ~HasField(reqOutcome.v.data, "id")) =>
              ThrewValidationError(<<"id">>)

\* a 2xx item record whose id is null was refused
C15_Witness ==
    /\ pc = "done"
    /\ call.op = "getItem"
    /\ RequestReturned
    /\ reqOutcome.v.data = Obj([id |-> Null])
    /\ ThrewValidationError(<<"id">>)

\* the first of id, created, karma that the value lacks
FirstMissingUserField(v) ==
    IF ~HasField(v, "id") THEN <<"id">>
    ELSE IF ~HasField(v, "created") THEN <<"created">>
    ELSE <<"karma">>

HasUserFields(v) ==
    HasField(v, "id") /\ HasField(v, "created") /\ HasField(v, "karma")

\* C16: every non-null value getUser returns has id, created and karma, none
\* of them null.  A 2xx payload that is not null and lacks one of them makes
\* getUser throw a ValidationError whose field is the first one missing in
\* the order id, created, karma.  A 2xx null payload gives null.
C16_GetUserRequiredFields ==
    (pc = "done" /\ call.op = "getUser") =>
        /\ (opOutcome.k = "return" /\ opOutcome.v # Null) =>
              HasUserFields(opOutcome.v)
        /\ (RequestReturned /\ reqOutcome.v.data = Null) =>
              opOutcome = Return(Null)
        /\ (/\ RequestReturned
            /\ reqOutcome.v.data # Null
            /\ ~HasUserFields(reqOutcome.v.data)) =>
              ThrewValidationError(FirstMissingUserField(reqOutcome.v.data))

\* a user record with an id but neither created nor karma was refused, the
\* error naming created
C16_Witness ==
    /\ pc = "done"
    /\ call.op = "getUser"
    /\ RequestReturned
    /\ HasField(reqOutcome.v.data, "id")
    /\ ~HasField(reqOutcome.v.data, "created")
    /\ ~HasField(reqOutcome.v.data, "karma")
    /\ ThrewValidationError(<<"created">>)

\* request returned a 2xx envelope that the operation in progress refuses
PayloadFailsValidation ==
    /\ RequestReturned
    /\ LET d == reqOutcome.v.data
           s == reqOutcome.v.status
       IN  CASE call.op = "getItem" -> d # Null /\ ~HasField(d, "id")
             [] call.op = "getUser" -> d # Null /\ ~HasUserFields(d)
             [] call.op = "getMaxItemId" -> s # 200 \/ d.t # "number"
             [] call.op \in NotEmptyOps ->
                    s # 200 \/ d.t # "array" \/ Len(d.a) = 0
             [] call.op \in ListOps \ NotEmptyOps -> s # 200 \/ d.t # "array"
             [] OTHER -> FALSE

\* C17: validation errors are not retried.  Once request has returned a 2xx
\* envelope that the operation refuses, no further attempt and no fetch is
\* made for the call, and the step that ends the operation throws a
\* ValidationError to the caller.  A ValidationError reaches the caller in
\* no other way, and with it the fetch that succeeded is the last one.
C17_ValidationNotRetried ==
    [][ /\ (pc = "settled" /\ PayloadFailsValidation) =>
              /\ fetches' = fetches
              /\ attempt' = attempt
              /\ pc' \in {"settled", "done"}
              /\ pc' = "done" =>
                    /\ opOutcome'.k = "throw"
                    /\ opOutcome'.e.name = "ValidationError"
                    /\ reqOutcome' = reqOutcome
        /\ (opOutcome'.k = "throw" /\ opOutcome' # opOutcome
               /\ "name" \in DOMAIN opOutcome'.e
               /\ opOutcome'.e.name = "ValidationError") =>
              /\ pc = "settled"
              /\ PayloadFailsValidation
              /\ fetches' = attempt + 1
      ]_vars

\* the second attempt of getMaxItemId got a 2xx payload that is no number:
\* the ValidationError is thrown with one retry of the budget unused
C17_Witness ==
    /\ pc = "done"
    /\ call.op = "getMaxItemId"
    /\ PayloadFailsValidation
    /\ reqOutcome.v.status = 200
    /\ opOutcome.k = "throw"
    /\ opOutcome.e.name = "ValidationError"
    /\ attempt = 1
    /\ fetches = 2
    /\ call.maxRetries = IntR(2)

DomainOps == {"getItem", "getUser", "getMaxItemId"} \cup ListOps

ActiveSettings(instance) ==
    [baseUrl |-> instance.config.environment.baseUrl,
     timeout |-> getTimeout(instance.config.environment),
     retries |-> getRetries(instance.config.environment)]

\* C19 as stated: once the ConfigManager is initialised, no operation of
\* its public interface changes the base URL, timeout or retry count that
\* later readers see.
C19_ConfigReadOnly ==
    [][ HasInstance =>
            /\ HasInstance'
            /\ ActiveSettings(configInstance') = ActiveSettings(configInstance)
      ]_vars

\* C19: once the ConfigManager is initialised, the active environment
\* changes in one way only: by setEnvironment called with the name of a
\* known profile, which makes that profile the active one.  getInstance,
\* the getters and setEnvironment with an unknown name leave it as it is,
\* and the instance is never dropped.
C19_ChangedOnlyBySetEnvironment ==
    [][ HasInstance =>
            /\ HasInstance'
            /\ (configInstance' # configInstance) =>
                  /\ cfgCall'.op = "setEnvironment"
                  /\ cfgCall'.arg \in EnvNames
                  /\ cfgCall'.outcome = Return(Undefined)
                  /\ configInstance'.config.environment = environments[cfgCall'.arg]
            /\ (cfgCall'.op # "setEnvironment" \/ cfgCall'.outcome.k = "throw") =>
                  configInstance' = configInstance
      ]_vars

\* loaded with no TEST_ENV (dev, two retries), then switched to production:
\* readers now see one retry
C19_Witness ==
    /\ testEnv = Undefined
    /\ cfgCall.op = "setEnvironment"
    /\ cfgCall.arg = "production"
    /\ HasInstance
    /\ ActiveSettings(configInstance).retries = 1

KnownTestEnv == {StrLit(e) : e \in EnvNames}

\* C20: initialising the configuration when TEST_ENV names no known profile
\* throws a ConfigurationError and no configuration is established, then or
\* later; when no name is requested the dev profile is selected, and a known
\* name selects its profile.
C20_InitializeConfig ==
    [][ (~HasInstance /\ cfgCall'.op = "getInstance") =>
            IF testEnv \in KnownTestEnv
            THEN /\ HasInstance'
                 /\ configInstance'.config.environment = environments[testEnv.s.v]
            ELSE IF testEnv = Undefined \/ testEnv = StrLit("")
            THEN /\ HasInstance'
                 /\ configInstance'.config.environment = environments["dev"]
                 /\ configInstance'.config.environment.name = "dev"
            ELSE /\ ~HasInstance'
                 /\ cfgCall'.outcome.k = "throw"
                 /\ cfgCall'.outcome.e.name = "ConfigurationError"
      ]_vars

\* TEST_ENV=qa: getInstance threw and there is no configuration
C20_Witness ==
    /\ testEnv = StrLit("qa")
    /\ cfgCall.op = "getInstance"
    /\ cfgCall.outcome = Throw(ConfigurationError("qa"))
    /\ ~HasInstance

\* what one call has counted and kept is its own: its fetches and failures
\* and no other call's
OwnLocals(c) ==
    /\ c.attempt = 0 <=> c.lastError = Undefined
    /\ c.attempt <= client.retries
    /\ c.fetches \in {c.attempt, c.attempt + 1}
    /\ c.reqOutcome.k = "return" => c.fetches = c.attempt + 1
    /\ c.reqOutcome.k = "throw" =>
          /\ c.attempt = client.retries
          /\ c.fetches = client.retries + 1
          /\ c.reqOutcome.e.name = "APIError"
          /\ c.reqOutcome.e.endpoint = c.url

\* C13: N getItem calls started together on one client and awaited
\* jointly.  Under every interleaving of responses, failures, timeouts and
\* backoffs, the i-th value of the joint result is the value call i
\* returned for ids[i], and when it is not null its id is ids[i]; a joint
\* rejection is the error of one of the calls.  Each call counts its own
\* attempts and keeps its own last error.
C13_ConcurrentGetItems ==
    slots # <<>> =>
        /\ \A i \in DOMAIN slots :
              /\ slots[i].id = ConcurrentIds[i]
              /\ OwnLocals(slots[i])
              /\ (slots[i].outcome.k = "return" /\ slots[i].outcome.v # Null) =>
                    slots[i].outcome.v = Obj([id |-> Num(ConcurrentIds[i])])
        /\ results.k = "return" =>
              /\ DOMAIN results.v = 1..NumCalls
              /\ \A i \in 1..NumCalls :
                    /\ slots[i].pc = "done"
                    /\ results.v[i] = slots[i].outcome.v
                    /\ results.v[i] # Null => results.v[i].f.id.n = ConcurrentIds[i]
        /\ results.k = "throw" =>
              \E i \in DOMAIN slots :
                  /\ slots[i].outcome = results
                  /\ results.e.endpoint = slots[i].url

\* the joint result is there, both items found; the first call succeeded at
\* once, the second after two failures of its own
C13_Witness ==
    /\ slots # <<>>
    /\ results.k = "return"
    /\ results.v[1] # Null
    /\ results.v[NumCalls] # Null
    /\ slots[1].attempt = 0
    /\ slots[NumCalls].attempt = 2
    /\ slots[NumCalls].lastError = AbortError

\* C27: every failed attempt is retried, whatever the failure.  The attempt
\* that received a non-2xx response, a 404 as much as a 500, ends like one
\* that met a network error or a timeout: with budget left, the loop goes
\* to the backoff of the next attempt and throws nothing; on the last
\* attempt, after retries + 1 fetches, the error is thrown.
C27_RetriesEveryFailure ==
    [][ (/\ pc = "reading"
         /\ ~(resp.status \in 200..299)
         /\ pc' # pc) =>
            IF attempt < call.maxRetries.n
            THEN /\ pc' = "backoff"
                 /\ attempt' = attempt + 1
                 /\ delayMs' = 1000 * (attempt + 1)
                 /\ reqOutcome' = None
                 /\ lastError' # Undefined
            ELSE /\ fetches = call.maxRetries.n + 1
                 /\ fetches' = fetches
                 /\ RequestThrew'
      ]_vars

\* two 404 responses in a row: the second retry is being prepared
C27_Witness ==
    /\ pc = "backoff"
    /\ attempt = 2
    /\ resp.status = 404
    /\ lastError.name = "APIError"
    /\ lastError.statusCode = 404

\* C28: when request returns or throws, no timeout timer of the call is
\* pending.
C28_NoTimerLeftPending ==
    (reqOutcome.k # "none") => timers = {}

\* C25: an attempt decodes the body as JSON exactly when the response has a
\* content-type header containing 'application/json'; otherwise the data is
\* the raw text, a string, also when that text reads as a JSON value.  This
\* holds for the envelope returned and for the body kept in the error of a
\* non-2xx response.
C25_DecodeByContentType ==
    LET json == resp.ct = "application/json; charset=utf-8"
    IN  /\ RequestReturned =>
              /\ json => reqOutcome.v.data = resp.body.v
              /\ ~json => reqOutcome.v.data = Str(resp.body)
        /\ (/\ RequestThrew
            /\ ResponseReceived
            /\ ~(resp.status \in 200..299)) =>
              /\ json => reqOutcome.e.responseBody = resp.body.v
              /\ ~json => reqOutcome.e.responseBody = Str(resp.body)

\* a text/html response whose body is the text `null` was returned as a
\* string
C25_Witness ==
    /\ RequestReturned
    /\ resp.ct = "text/html"
    /\ resp.body = JsonBody(Null)
    /\ reqOutcome.v.data.t = "string"
    /\ reqOutcome.v.data # Null

\* C21: request keeps no state across calls.  The client's base URL,
\* default headers, default timeout and default retry count are what they
\* were at construction, and when a call is issued a second time against a
\* remote that answers as before, it ends as the first did: the same
\* envelope or the same error from request, the same value or error to the
\* caller.
C21_NoStateAcrossCalls ==
    /\ client = NewClient(configInstance.config.environment)
    /\ (round = 2 /\ pc = "done") =>
          /\ reqOutcome = firstOutcome.req
          /\ opOutcome = firstOutcome.op

\* both calls failed twice and got the item on the third attempt
C21_Witness ==
    /\ round = 2
    /\ pc = "done"
    /\ seqCall.op = "getItem"
    /\ attempt = 2
    /\ firstOutcome.op = Return(Obj([id |-> Num(1)]))
    /\ opOutcome = firstOutcome.op

\* C29: setEnvironment with a name that no profile carries throws a
\* ConfigurationError and leaves the active environment as it was; with the
\* name of a profile it makes that profile the active one.  Either way a
\* client constructed earlier keeps the base URL, timeout and retry count
\* it captured when it was constructed.
C29_SetEnvironment ==
    [][ cfgCall'.op = "setEnvironment" =>
            /\ client' = client
            /\ IF cfgCall'.arg \in EnvNames
               THEN /\ cfgCall'.outcome = Return(Undefined)
                    /\ configInstance'.config.environment = environments[cfgCall'.arg]
               ELSE /\ cfgCall'.outcome.k = "throw"
                    /\ cfgCall'.outcome.e.name = "ConfigurationError"
                    /\ configInstance' = configInstance
      ]_vars

\* a client built under dev (two retries) is still there, unchanged, after
\* the switch to production (one retry)
C29_Witness ==
    /\ cfgCall.op = "setEnvironment"
    /\ cfgCall.arg = "production"
    /\ client # Undefined
    /\ client = NewClient(environments["dev"])
    /\ ActiveSettings(configInstance) # ActiveSettings([config |-> [environment |-> environments["dev"]]])

RECURSIVE StripTrailing(_)
StripTrailing(s) ==
    IF EndsWith(s, "/") THEN StripTrailing(SubSeq(s, 1, Len(s) - 1)) ELSE s

RECURSIVE StripLeading(_)
StripLeading(s) ==
    IF StartsWith(s, "/") THEN StripLeading(Tail(s)) ELSE s

IsAbsoluteUrl(s) == StartsWith(s, "http://") \/ StartsWith(s, "https://")

\* C24: buildUrl uses a target that starts with http:// or https:// as it
\* is; any other target is joined to the base URL with exactly one '/'
\* between them, whatever slashes the base ends with and the path starts
\* with.
C24_BuildUrl ==
    (pureIn.fn = "buildUrl" /\ pureOut # None) =>
        IF IsAbsoluteUrl(pureIn.path)
        THEN pureOut = Return(pureIn.path)
        ELSE pureOut = Return(StripTrailing(pureIn.baseUrl) \o <<"/">>
                              \o StripLeading(pureIn.path))

\* the property names of a dot-separated path, in order
PathNames(path) == [i \in 1..((Len(path) + 1) \div 2) |-> path[2 * i - 1]]

\* the value a path of property names leads to, undefined where the walk
\* leaves the objects
RECURSIVE Lookup(_, _)
Lookup(v, names) ==
    IF names = <<>> THEN v
    ELSE IF v.t = "object" /\ Head(names) \in DOMAIN v.f
    THEN Lookup(v.f[Head(names)], Tail(names))
    ELSE Undefined

ResolvesToNothing(data, path) == Lookup(data, PathNames(path)) \in {Undefined, Null}

\* the listed paths that resolve to nothing, in list order
RECURSIVE NothingAt(_, _)
NothingAt(data, fields) ==
    IF fields = <<>> THEN <<>>
    ELSE (IF ResolvesToNothing(data, Head(fields)) THEN <<Head(fields)>> ELSE <<>>)
         \o NothingAt(data, Tail(fields))

\* C22: validateRequired(data, fields) throws a ValidationError exactly when
\* some listed path resolves to undefined or null, a missing or null
\* intermediate segment included; the error's field is the first such path
\* in list order and its details list every such path; otherwise it
\* returns, and nothing else is changed either way.
C22_ValidateRequired ==
    (pureIn.fn = "validateRequired" /\ pureOut # None) =>
        LET nothing == NothingAt(pureIn.data, pureIn.fields)
        IN  IF nothing = <<>>
            THEN pureOut = Return(Undefined)
            ELSE /\ pureOut.k = "throw"
                 /\ pureOut.e.name = "ValidationError"
                 /\ pureOut.e.field = nothing[1]
                 /\ pureOut.e.validationDetails.missing = nothing

\* a.b asked of {a: null, b: 0} after b: the error names a.b and lists it
\* alone
C22_Witness ==
    /\ pureIn.fn = "validateRequired"
    /\ pureIn.data = Obj([a |-> Null, b |-> Num(0)])
    /\ pureIn.fields = <<<<"b">>, <<"a", ".", "b">>>>
    /\ pureOut.k = "throw"
    /\ pureOut.e.field = <<"a", ".", "b">>
    /\ pureOut.e.validationDetails.missing = <<<<"a", ".", "b">>>>

\* C23: a record the schema of its shape (item, story, comment, job, user)
\* accepts also passes validateRequired on the required fields of that
\* shape, and validateType with the declared type for every declared field
\* it has.
C23_SchemaRoundTrip ==
    (pureIn.fn = "checkShape" /\ pureOut # None /\ pureOut.schema) =>
        /\ pureOut.required = Return(Undefined)
        /\ DOMAIN pureOut.types = DOMAIN pureIn.record.f
        /\ \A f \in DOMAIN pureOut.types : pureOut.types[f] = Return(Undefined)

\* a story with a list of kids: accepted, and kids passes as an array
C23_Witness ==
    /\ pureIn.fn = "checkShape"
    /\ pureIn.shape = "story"
    /\ pureOut # None
    /\ pureOut.schema
    /\ "kids" \in DOMAIN pureIn.record.f
    /\ pureOut.types["kids"] = Return(Undefined)
    /\ pureOut.required = Return(Undefined)

ItemFieldSet ==
    {"id", "type", "by", "time", "text", "dead", "parent", "poll", "kids", "url",
     "score", "title", "parts", "descendants", "deleted"}

\* C30: the story, comment and job schemas refine the item schema: a
\* record one of them accepts is accepted by the item schema, and a record
\* with a field outside the declared item fields is rejected by all four.
C30_SubtypesRefineItem ==
    (pureIn.fn = "itemSchemas" /\ pureOut # None) =>
        /\ (pureOut.story \/ pureOut.comment \/ pureOut.job) => pureOut.item
        /\ ~(DOMAIN pureIn.record.f \subseteq ItemFieldSet) =>
              ~(pureOut.item \/ pureOut.story \/ pureOut.comment \/ pureOut.job)

\* a well-formed comment with a title: the comment and the item schema
\* accept it, the story and the job schema do not
C30_Witness ==
    /\ pureIn.fn = "itemSchemas"
    /\ pureOut # None
    /\ "title" \in DOMAIN pureIn.record.f
    /\ pureOut.comment /\ pureOut.item
    /\ ~pureOut.story /\ ~pureOut.job

\* a well-formed story with one more field that the item schema does not
\* declare: rejected by all four
C30_WitnessUndeclared ==
    /\ pureIn.fn = "itemSchemas"
    /\ pureOut # None
    /\ pureIn.record = Put(WellFormed("story"), "extra", Num(1))
    /\ ~(pureOut.item \/ pureOut.story \/ pureOut.comment \/ pureOut.job)

\* the call answered "not there": a 2xx response with a null payload, or a
\* non-2xx response on the final attempt
StageAbsent(s) ==
    \/ s.req.k = "return" /\ s.req.v.data = Null
    \/ /\ s.req.k = "throw"
       /\ s.err # Undefined
       /\ s.err.name = "APIError"
       /\ ~ResponseOk(s.err.statusCode)

\* the call was answered with a record, which request returned
StagePresent(s) ==
    /\ s.req.k = "return"
    /\ s.req.v.data.t = "object"

StageAnswered(s) == StageAbsent(s) \/ StagePresent(s)

FieldOf(rec, name) == IF name \in DOMAIN rec.f THEN rec.f[name] ELSE Undefined

\* the story has a first kid
HasKids(rec) ==
    /\ "kids" \in DOMAIN rec.f
    /\ rec.f.kids.t = "array"
    /\ Len(rec.f.kids.a) > 0

\* the text of the first child, where it is there and has a non-empty text
HasText(s) ==
    /\ StagePresent(s)
    /\ FieldOf(s.req.v.data, "text") \notin {Undefined, Null, StrLit("")}

\* C26: with a first top story whose item call the remote answered, and
\* whose first-kid call, where the story has kids, it answered too,
\* getTopStoryWithComment returns null exactly when the story's item is
\* absent; otherwise it returns the story's title and url with top_comment
\* the text of the first child when that child exists and has a non-empty
\* text, and 'No comments found.' in every other case.
C26_TopStoryWithComment ==
    (/\ story.at = "done"
     /\ story.top.out.k = "return"
     /\ StageAnswered(story.item)
     /\ StagePresent(story.item) /\ HasKids(story.item.req.v.data)
            => StageAnswered(story.kid)) =>
        IF StageAbsent(story.item)
        THEN storyOutcome = Return(Null)
        ELSE LET rec == story.item.req.v.data
             IN  storyOutcome =
                    Return(Obj([title |-> FieldOf(rec, "title"),
                                url |-> FieldOf(rec, "url"),
                                top_comment |->
                                    IF HasKids(rec) /\ HasText(story.kid)
                                    THEN story.kid.req.v.data.f.text
                                    ELSE StrLit("No comments found.")]))

\* the story has a kid whose text is "c": returned as top_comment
C26_Witness ==
    /\ story.at = "done"
    /\ StagePresent(story.kid)
    /\ storyOutcome.k = "return"
    /\ storyOutcome.v # Null
    /\ storyOutcome.v.f.top_comment = StrLit("c")

TypeOK ==
    /\ pc \in {"idle", "backoff", "fetching", "reading", "settled", "done"}
    /\ attempt \in 0..(MaxRetryOverride + 3)
    /\ fetches \in 0..(MaxRetryOverride + 3)
    /\ timers \subseteq 0..(MaxRetryOverride + 3)
====
